---------------------------- MODULE Spec2Model ----------------------------
(***************************************************************************)
(* Model of the log-tailing chat bridge of minecraft_discord_bot:          *)
(*   - FileChangesUtillity   (src/src/chat_parser/log_parser.py)           *)
(*   - MinecraftChatParser   (src/src/chat_parser/chat_parser.py)          *)
(*   - VanishHandlerBase / VanishHandlerMasterPerki (same file)            *)
(*                                                                         *)
(* Text.  A string is a sequence of tokens <<class, text>>.  Inside a line *)
(* every token but the last is followed by one space; the newline is the   *)
(* token NL.  The classes say what the regular expressions of the source   *)
(* can see of a token:                                                     *)
(*   "br"    "[...]"      starts with "[" and ends with "]"                *)
(*   "pfx"   "[...] [...]:"  a logger prefix, starts with "[", ends ":"    *)
(*   "lit"   a fixed banner that starts with "["                           *)
(*   "angle" "<name>"     name matching [a-zA-Z]+[a-zA-z0-9]*              *)
(*   "name"  a word matching [a-zA-Z]+[a-zA-z0-9]* (and so \w+)            *)
(*   "obr"   "[name:"     "[" \w+ ":"                                      *)
(*   "cbr"   "word]"      ends with "]"                                    *)
(*   "sym"   any other word                                                *)
(*   "nl"    the line terminator                                           *)
(***************************************************************************)
EXTENDS Naturals, Sequences, FiniteSets, TLC

VARIABLES
    file,               \* the monitored log: the contents of its lines, in order
    partial,            \* TRUE when the last line of the file has no terminator yet
    mtime,              \* st_mtime of the monitored file
    fault,              \* what fails now: a step of reading the log, writes of the data file
    last_position,      \* FileChangesUtillity._last_position
    cached_stamp,       \* FileChangesUtillity._cached_stamp
    iterator,           \* FileChangesUtillity._iterator (the generator's state)
    reader,             \* the module of the FileChangesUtillity there is, or "none"
    is_server_working,  \* MinecraftChatParser._is_server_working
    vanished_players,   \* VanishHandlerBase._vanished_players
    data_file,          \* the JSON file at VanishHandlerBase._data_path
    rcon,               \* the AIOMcRcon client and the reconnection tasks it started
    line_buffer,        \* FileChangesHandler._line_buffer
    is_working,         \* FileCnageObserver.is_working
    threads,            \* where each worker thread started by start() is in file_observer
    call,               \* the last call made on the program, with what it returned
    hist                \* observations kept for the properties

fsVars     == <<file, partial, mtime, fault>>
readerVars == <<last_position, cached_stamp, iterator, reader>>
parserVars == <<is_server_working, vanished_players, data_file>>
observerVars == <<line_buffer, is_working, threads>>
vars       == <<file, partial, mtime, fault, last_position, cached_stamp, iterator,
                reader, is_server_working, vanished_players, data_file, rcon,
                line_buffer, is_working, threads, call, hist>>

Range(s) == {s[i] : i \in 1..Len(s)}

\* All the orders in which the elements of S can be listed.
Perms(S) == {s \in [1..Cardinality(S) -> S] : Range(s) = S}

-----------------------------------------------------------------------------
(* Tokens and the literals of the source *)

NL        == <<"nl", "\n">>
TS        == <<"br", "[14Dec2023 07:29:06.982]">>
P_MS      == <<"pfx", "[Server thread/INFO] [net.minecraft.server.MinecraftServer/]: ">>
P_DS      == <<"pfx", "[Server thread/INFO] [net.minecraft.server.dedicated.DedicatedServer/]: ">>
P_NS      == <<"br", "[Not Secure] ">>
RCON_TAG  == <<"br", "[Rcon]">>
VANISHMOD == <<"br", "[Vanishmod]">>
VANISHED_END   == <<"cbr", "vanished]">>
UNVANISHED_END == <<"cbr", "unvanished]">>
MODLAUNCHER == <<"lit", "[main/INFO] [cpw.mods.modlauncher.Launcher/MODLAUNCHER]: ModLauncher running: args [--launchTarget, forgeserver]">>
VOICECHAT   == <<"lit", "[VoiceChatServerThread/INFO] [voicechat/]: [voicechat] Voice chat server started at port 24454">>
RCONRUN     == <<"lit", "[Server thread/INFO] [net.minecraft.server.rcon.thread.RconThread/]: RCON running on 0.0.0.0:25575">>

Name(w)  == <<"name", w>>
Angle(u) == <<"angle", u>>
Obr(u)   == <<"obr", u>>
Sym(w)   == <<"sym", w>>

StartsWithBracket(tok) == tok[1] \in {"br", "pfx", "lit", "obr"}
EndsWithBracket(tok)   == tok[1] \in {"br", "cbr"}

\* str.lower() on the player names of the model.
Lower(s) ==
    CASE s \in {"Steve", "STEVE", "steve"} -> "steve"
      [] s \in {"Alex", "alex"}            -> "alex"
      [] OTHER                             -> s

EMPTY == << >>

\* The line without its terminator: what "$" and "." let a pattern see.
Body(text) ==
    IF Len(text) > 0 /\ text[Len(text)] = NL THEN SubSeq(text, 1, Len(text) - 1)
    ELSE text

\* str.rstrip(): trailing whitespace (here the terminator) removed.
RECURSIVE RStrip(_)
RStrip(text) ==
    IF Len(text) > 0 /\ text[Len(text)] = NL
    THEN RStrip(SubSeq(text, 1, Len(text) - 1))
    ELSE text

\* pattern in message: the literal, trailing space included, occurs in the text.
Contains(message, pattern) ==
    \E i \in 1..Len(message) :
        message[i] = pattern /\ i < Len(message) /\ message[i + 1] # NL

\* message.partition(pattern)[2] in the place of split: what follows the
\* first occurrence of the literal, and "" when there is none.
SplitLast_Partition(message, pattern) ==
    IF Contains(message, pattern)
    THEN LET first == CHOOSE i \in 1..Len(message) :
                          /\ message[i] = pattern /\ i < Len(message) /\ message[i + 1] # NL
                          /\ \A j \in 1..(i - 1) :
                                 ~(message[j] = pattern /\ j < Len(message) /\ message[j + 1] # NL)
         IN  SubSeq(message, first + 1, Len(message))
    ELSE EMPTY

\* message.split(pattern)[-1]: what follows the last occurrence of the literal.
SplitLast(message, pattern) ==
    IF Contains(message, pattern)
    THEN LET last == CHOOSE i \in 1..Len(message) :
                         /\ message[i] = pattern /\ i < Len(message) /\ message[i + 1] # NL
                         /\ \A j \in (i + 1)..Len(message) :
                                ~(message[j] = pattern /\ j < Len(message) /\ message[j + 1] # NL)
         IN  SubSeq(message, last + 1, Len(message))
    ELSE message

-----------------------------------------------------------------------------
(* MinecraftChatParser: the line classifier *)

chat_message_patterns_list == <<P_MS, P_DS, P_NS>>

STOPPED_MSG  == <<Sym("# Server stopped.")>>      \* "# Сервер остановлен."
STARTING_MSG == <<Sym("# Server is starting...")>> \* "# Сервер запускается..."
STARTED_MSG  == <<Sym("# Server started.")>>       \* "# Сервер запущен."

\* ^\[.*?\] \[Server thread/INFO\] \[net.minecraft.server.MinecraftServer/\]: Stopping server$
stopped_server_pattern(message) ==
    LET b == Body(message) IN
    /\ Len(b) >= 4
    /\ StartsWithBracket(b[1])
    /\ EndsWithBracket(b[Len(b) - 3])
    /\ b[Len(b) - 2] = P_MS
    /\ b[Len(b) - 1] = Name("Stopping")
    /\ b[Len(b)] = Name("server")

\* ^\[.*?\] \[main/INFO\] \[.*?\]: ModLauncher running: args \[.*?\]$
starting_server_pattern(message) ==
    LET b == Body(message) IN
    /\ Len(b) >= 2
    /\ StartsWithBracket(b[1])
    /\ EndsWithBracket(b[Len(b) - 1])
    /\ b[Len(b)] = MODLAUNCHER

\* The two patterns of _started_server_patterns_list, tried by _match_patterns.
started_server_patterns_list(message) ==
    LET b == Body(message) IN
    /\ Len(b) >= 2
    /\ StartsWithBracket(b[1])
    /\ EndsWithBracket(b[Len(b) - 1])
    /\ b[Len(b)] \in {VOICECHAT, RCONRUN}

\* ^\<[a-zA-Z]+[a-zA-z0-9]*\> .*?$|^[a-zA-Z]+[a-zA-z0-9]* [a-zA-Z]+[a-zA-z0-9]* .*?$
message_struct_pattern(chat_message) ==
    LET b == Body(chat_message) IN
    \/ Len(b) >= 2 /\ b[1][1] = "angle"
    \/ Len(b) >= 3 /\ b[1][1] = "name" /\ b[2][1] = "name"

\* _manage_server_status that takes the starting marker for a started one.
_manage_server_status_StartingRuns(working, message) ==
    IF stopped_server_pattern(message)
    THEN [working |-> FALSE, ret |-> STOPPED_MSG]
    ELSE IF starting_server_pattern(message)
    THEN [working |-> TRUE, ret |-> STARTING_MSG]
    ELSE IF started_server_patterns_list(message)
    THEN [working |-> TRUE, ret |-> STARTED_MSG]
    ELSE [working |-> working, ret |-> EMPTY]

\* _manage_server_status: the new status and the banner returned ("" when no
\* status pattern matches).
_manage_server_status(working, message) ==
    IF stopped_server_pattern(message)
    THEN [working |-> FALSE, ret |-> STOPPED_MSG]
    ELSE IF starting_server_pattern(message)
    THEN [working |-> FALSE, ret |-> STARTING_MSG]
    ELSE IF started_server_patterns_list(message)
    THEN [working |-> TRUE, ret |-> STARTED_MSG]
    ELSE [working |-> working, ret |-> EMPTY]

\* NotEligible without the test of the server status.
NotEligible_IgnoresStatus(working, message) ==
    /\ ~Contains(message, chat_message_patterns_list[1])
    /\ ~Contains(message, chat_message_patterns_list[2])

\* NotEligible without the test for a logger prefix.
NotEligible_IgnoresPrefix(working, message) == ~working

\* The guard of the early return of extract_chat_message.
NotEligible(working, message) ==
    \/ ~working
    \/ /\ ~Contains(message, chat_message_patterns_list[1])
       /\ ~Contains(message, chat_message_patterns_list[2])

\* for pattern in list: chat_message = chat_message.split(pattern)[-1]
StripPrefixes(message) ==
    SplitLast(SplitLast(SplitLast(message, chat_message_patterns_list[1]),
                        chat_message_patterns_list[2]),
              chat_message_patterns_list[3])

-----------------------------------------------------------------------------
(* VanishHandlerBase and VanishHandlerMasterPerki *)

\* The number of capture groups of VANISHED_PATTERN and UNVANISHED_PATTERN.
PatternGroups == 0

\* ^\[\w+: \[Vanishmod\] \w+ vanished\]$
VANISHED_PATTERN(msg) ==
    LET b == Body(msg) IN
    /\ Len(b) = 4
    /\ b[1][1] = "obr" /\ b[2] = VANISHMOD /\ b[3][1] = "name" /\ b[4] = VANISHED_END

\* ^\[\w+: \[Vanishmod\] \w+ unvanished\]$
UNVANISHED_PATTERN(msg) ==
    LET b == Body(msg) IN
    /\ Len(b) = 4
    /\ b[1][1] = "obr" /\ b[2] = VANISHMOD /\ b[3][1] = "name" /\ b[4] = UNVANISHED_END

is_vanished(msg)   == VANISHED_PATTERN(msg)
is_unvanished(msg) == UNVANISHED_PATTERN(msg)

\* extract_username: match.group(1) of the first pattern that matches, "" when
\* none does; group(1) of a pattern without a group raises IndexError.
extract_username(msg) ==
    IF VANISHED_PATTERN(msg) \/ UNVANISHED_PATTERN(msg)
    THEN IF PatternGroups >= 1
         THEN [exc |-> "none", username |-> Body(msg)[1][2]]
         ELSE [exc |-> "IndexError", username |-> ""]
    ELSE [exc |-> "none", username |-> ""]

LEFT_GAME_PATTERN(username) ==
    <<Name(username), Name("left"), Name("the"), Name("game")>>
JOINED_GAME_PATTERN(username) ==
    <<Name(username), Name("joined"), Name("the"), Name("game")>>

\* _load_data that starts from the empty set whatever the file holds.
_load_data_IgnoresFile(f) == {}

\* _load_data: the set of a JSON list; the empty set for a missing file, for
\* invalid JSON and for JSON that is no list.
_load_data(f) == IF f.kind = "list" THEN Range(f.items) ELSE {}

\* What _load_data raises: it catches FileNotFoundError and JSONDecodeError
\* only.  open() of a file that may not be read raises PermissionError, the
\* read of bytes that are not UTF-8 raises UnicodeDecodeError, and set() of
\* a list that holds a list raises TypeError.
_load_data_exc(f) ==
    CASE f.kind = "unreadable"  -> "PermissionError"
      [] f.kind = "undecodable" -> "UnicodeDecodeError"
      [] f.kind = "nested"      -> "TypeError"
      [] OTHER                  -> "none"

\* _dump_data: json.dump(list(set)) lists the set in an order of its own.
\* When the file cannot be written the OSError is not caught; the file is
\* then as it was (open() raised) or cut short (the write raised).
_dump_data(players, f) ==
    IF fault.data
    THEN {[f |-> f, exc |-> "OSError"],
          [f |-> [kind |-> "corrupt", items |-> << >>], exc |-> "OSError"]}
    ELSE {[f |-> [kind |-> "list", items |-> s], exc |-> "none"] :
             s \in Perms(players)}

\* _vanish_player that does not write the file.
_vanish_player_NoDump(players, f, username) ==
    {[players |-> players \cup {Lower(username)}, f |-> f, exc |-> "none"]}

\* _vanish_player that writes the file before it adds the name.
_vanish_player_DumpsFirst(players, f, username) ==
    {[players |-> players \cup {Lower(username)}, f |-> d.f, exc |-> d.exc] :
        d \in _dump_data(players, f)}

\* _vanish_player: the handler states it can leave, given the set and the file.
_vanish_player(players, f, username) ==
    LET added == players \cup {Lower(username)} IN
    {[players |-> added, f |-> d.f, exc |-> d.exc] : d \in _dump_data(added, f)}

\* _unvanish_player that removes the name as given, not lowercased.
_unvanish_player_NoLower(players, f, username) ==
    IF username \in players
    THEN LET removed == players \ {username} IN
         {[players |-> removed, f |-> d.f, exc |-> d.exc] :
             d \in _dump_data(removed, f)}
    ELSE {[players |-> players, f |-> f, exc |-> "none"]}

\* _unvanish_player that writes the file also when the player is not in
\* the set.
_unvanish_player_AlwaysDump(players, f, username) ==
    LET removed == players \ {Lower(username)} IN
    {[players |-> removed, f |-> d.f, exc |-> d.exc] :
        d \in _dump_data(removed, f)}

\* _unvanish_player: KeyError is caught, and then nothing is written.
_unvanish_player(players, f, username) ==
    IF Lower(username) \in players
    THEN LET removed == players \ {Lower(username)} IN
         {[players |-> removed, f |-> d.f, exc |-> d.exc] :
             d \in _dump_data(removed, f)}
    ELSE {[players |-> players, f |-> f, exc |-> "none"]}

\* The last test of process_message: username in self._vanished_players.
IsSuppressed(username, players) == username \in players

\* process_message that writes the storage file for every message.
process_message_AlwaysDump(players, f, msg) ==
    LET u == extract_username(msg) IN
    IF u.exc # "none"
    THEN {[players |-> players, f |-> f, ret |-> EMPTY, exc |-> u.exc]}
    ELSE {[players |-> players, f |-> d.f,
           ret |-> IF IsSuppressed(u.username, players) THEN EMPTY ELSE msg,
           exc |-> d.exc] :
              d \in _dump_data(players, f)}

\* process_message: every outcome [players, f, ret, exc] of one call.
process_message(players, f, msg) ==
    LET u == extract_username(msg) IN
    IF u.exc # "none"
    THEN {[players |-> players, f |-> f, ret |-> EMPTY, exc |-> u.exc]}
    ELSE IF is_vanished(msg)
    THEN {[players |-> h.players, f |-> h.f,
           ret |-> IF h.exc = "none" THEN LEFT_GAME_PATTERN(u.username)
                   ELSE EMPTY,
           exc |-> h.exc] :
              h \in _vanish_player(players, f, u.username)}
    ELSE IF is_unvanished(msg)
    THEN {[players |-> h.players, f |-> h.f,
           ret |-> IF h.exc = "none" THEN JOINED_GAME_PATTERN(u.username)
                   ELSE EMPTY,
           exc |-> h.exc] :
              h \in _unvanish_player(players, f, u.username)}
    ELSE IF IsSuppressed(u.username, players)
    THEN {[players |-> players, f |-> f, ret |-> EMPTY, exc |-> "none"]}
    ELSE {[players |-> players, f |-> f, ret |-> msg, exc |-> "none"]}

\* extract_chat_message that hands every eligible body to the vanish
\* handler, whatever its shape.
extract_chat_message_NoShapeCheck(working, players, f, message) ==
    LET s == _manage_server_status(working, message) IN
    IF s.ret # EMPTY
    THEN {[working |-> s.working, players |-> players, f |-> f,
           ret |-> s.ret, exc |-> "none"]}
    ELSE IF NotEligible(s.working, message)
    THEN {[working |-> s.working, players |-> players, f |-> f,
           ret |-> EMPTY, exc |-> "none"]}
    ELSE {[working |-> s.working, players |-> o.players, f |-> o.f,
           ret |-> o.ret, exc |-> o.exc] :
              o \in process_message(players, f, StripPrefixes(message))}

\* extract_chat_message: every outcome [working, players, f, ret, exc] of one call.
extract_chat_message(working, players, f, message) ==
    LET s == _manage_server_status(working, message) IN
    IF s.ret # EMPTY
    THEN {[working |-> s.working, players |-> players, f |-> f,
           ret |-> s.ret, exc |-> "none"]}
    ELSE IF NotEligible(s.working, message)
    THEN {[working |-> s.working, players |-> players, f |-> f,
           ret |-> EMPTY, exc |-> "none"]}
    ELSE LET chat_message == StripPrefixes(message) IN
         IF message_struct_pattern(chat_message)
         THEN {[working |-> s.working, players |-> o.players, f |-> o.f,
                ret |-> o.ret, exc |-> o.exc] :
                   o \in process_message(players, f, chat_message)}
         ELSE {[working |-> s.working, players |-> players, f |-> f,
                ret |-> EMPTY, exc |-> "none"]}

-----------------------------------------------------------------------------
(* FileChangesUtillity: the tail reader                                     *)
(*                                                                          *)
(* Offsets are in bytes; a line's content takes one byte and its terminator *)
(* one more, so that an offset can fall inside a line.  What a read hands   *)
(* out is an item [idx, part, text]: line idx of the file whole ("full"),   *)
(* without its terminator ("head"), or the rest of it ("tail").             *)

NoItem == [idx |-> 0, part |-> "none", text |-> EMPTY]

\* os.path.getsize
getsize == 2 * Len(file) - (IF partial THEN 1 ELSE 0)

\* What file.readline() finds at byte p of the file as it is now.
ItemAt(p) ==
    LET i == (p \div 2) + 1 IN
    IF p >= getsize THEN NoItem
    ELSE IF p % 2 = 1 THEN [idx |-> i, part |-> "tail", text |-> <<NL>>]
    ELSE IF i = Len(file) /\ partial
         THEN [idx |-> i, part |-> "head", text |-> file[i]]
         ELSE [idx |-> i, part |-> "full", text |-> Append(file[i], NL)]

ItemBytes(item) == IF item.part = "full" THEN 2 ELSE 1

\* The complete lines of the file from line i on.
CompleteFrom(i) == Len(file) - (IF partial THEN 1 ELSE 0) - i + 1

NewIterator  == [st |-> "new", buf |-> << >>, ospos |-> 0]
DoneIterator == [st |-> "done", buf |-> << >>, ospos |-> 0]

\* is_file_modified that takes the file for modified whatever its stamp.
is_file_modified_IgnoresStamp(rs) ==
    [rs  |-> [rs EXCEPT !.cached_stamp = mtime,
                        !.last_position =
                            IF getsize < rs.last_position THEN 0
                            ELSE rs.last_position],
     ret |-> TRUE]

\* is_file_modified without the test for a file that shrank.
is_file_modified_NoReset(rs) ==
    IF mtime # rs.cached_stamp
    THEN [rs |-> [rs EXCEPT !.cached_stamp = mtime], ret |-> TRUE]
    ELSE [rs |-> rs, ret |-> FALSE]

\* is_file_modified: the reader state it leaves and the value it returns.
\* An exception of os.stat or of os.path.getsize is caught and gives False;
\* when getsize raises, the stamp has been cached already.  os.stat raises
\* too when the path is not there.
is_file_modified(rs) ==
    IF fault.log \in {"stat", "absent"} THEN [rs |-> rs, ret |-> FALSE]
    ELSE IF mtime # rs.cached_stamp /\ fault.log = "getsize"
    THEN [rs |-> [rs EXCEPT !.cached_stamp = mtime], ret |-> FALSE]
    ELSE IF mtime # rs.cached_stamp
    THEN [rs  |-> [rs EXCEPT !.cached_stamp = mtime,
                             !.last_position =
                                 IF getsize < rs.last_position THEN 0
                                 ELSE rs.last_position],
          ret |-> TRUE]
    ELSE [rs |-> rs, ret |-> FALSE]

\* The state of a reader that has no _iterator: there is no reader, or it is
\* the FileChangesUtillity of log_parser/parser.py.
NoIterator == [st |-> "none", buf |-> << >>, ospos |-> 0]

\* FileChangesUtillity.__init__ that takes a path that is not there for an
\* empty file.
FileChangesUtillity_init_Swallows(module) ==
    [exc |-> "none",
     rs  |-> [last_position |-> 0, cached_stamp |-> 0,
              iterator |-> IF module = "chat_parser.log_parser"
                           THEN NewIterator ELSE NoIterator]]

\* FileChangesUtillity.__init__ of chat_parser/log_parser.py and of
\* log_parser/parser.py: the exception it raises, or the fields of the
\* reader it makes.  os.path.getsize raising FileNotFoundError is raised
\* again as LogFileNotExists, any other error of it leaves as it is; the
\* is_file_modified of log_parser/parser.py has no try, and that reader has
\* no _iterator.
FileChangesUtillity_init(module) ==
    LET fresh == [last_position |-> getsize, cached_stamp |-> 0,
                  iterator |-> IF module = "chat_parser.log_parser"
                               THEN NewIterator ELSE NoIterator]
    IN
    IF fault.log = "absent" THEN [exc |-> "LogFileNotExists", rs |-> fresh]
    ELSE IF fault.log = "getsize" THEN [exc |-> "OSError", rs |-> fresh]
    ELSE IF module = "log_parser.parser" /\ fault.log = "stat"
    THEN [exc |-> "OSError", rs |-> fresh]
    ELSE [exc |-> "none", rs |-> is_file_modified(fresh).rs]

\* ReadLine that does not store file.tell() when the pass ends.
ReadLine_NoTell(rs, greedy) ==
    LET it == rs.iterator IN
    IF it.buf # << >>
    THEN [rs   |-> [rs EXCEPT !.iterator.buf = Tail(it.buf)],
          line |-> Head(it.buf)]
    ELSE LET first == ItemAt(it.ospos) IN
         IF first.part = "none"
         THEN [rs |-> [rs EXCEPT !.iterator = DoneIterator], line |-> NoItem]
         ELSE IF first.part # "full"
         THEN [rs   |-> [rs EXCEPT !.iterator.ospos = it.ospos + 1],
               line |-> first]
         ELSE LET k == IF greedy THEN CompleteFrom(first.idx) ELSE 1 IN
              [rs   |-> [rs EXCEPT
                           !.iterator.ospos = it.ospos + 2 * k,
                           !.iterator.buf =
                               [j \in 1..(k - 1) |-> ItemAt(it.ospos + 2 * j)]],
               line |-> first]

\* file.readline() on the open handle.  The text layer reads ahead: a read
\* of the file takes either one line (greedy = FALSE) or every complete line
\* there is (greedy = TRUE), and the lines read ahead are handed out before
\* the file is read again.  At the end of the file the generator stores
\* file.tell() and ends.  A read that raises ends the generator in its
\* except clause, and file.tell() is not stored.
ReadLine(rs, greedy) ==
    LET it == rs.iterator IN
    IF it.buf # << >>
    THEN [rs   |-> [rs EXCEPT !.iterator.buf = Tail(it.buf)],
          line |-> Head(it.buf)]
    ELSE IF fault.log = "read"
    THEN [rs |-> [rs EXCEPT !.iterator = DoneIterator], line |-> NoItem]
    ELSE LET first == ItemAt(it.ospos) IN
         IF first.part = "none"
         THEN [rs   |-> [rs EXCEPT !.iterator = DoneIterator,
                                   !.last_position = it.ospos],
               line |-> NoItem]
         ELSE IF first.part # "full"
         THEN [rs   |-> [rs EXCEPT !.iterator.ospos = it.ospos + 1],
               line |-> first]
         ELSE LET k == IF greedy THEN CompleteFrom(first.idx) ELSE 1 IN
              [rs   |-> [rs EXCEPT
                           !.iterator.ospos = it.ospos + 2 * k,
                           !.iterator.buf =
                               [j \in 1..(k - 1) |-> ItemAt(it.ospos + 2 * j)]],
               line |-> first]

\* What a call of is_file_modified found: the stored offset and the size.
PollOf(rs) == [pos |-> rs.last_position, size |-> getsize]

\* next(self._iterator): the generator _get_new_lines run to its next yield
\* (line) or to its end (NoItem, which is StopIteration).  polls lists what
\* the calls of is_file_modified it made found.  open() raising ends the
\* generator in its except clause.
NextOfIterator(rs, greedy) ==
    IF rs.iterator.st = "done" THEN [rs |-> rs, line |-> NoItem, polls |-> << >>]
    ELSE IF rs.iterator.st = "new"
    THEN LET m == is_file_modified(rs) IN
         IF m.ret /\ fault.log = "open"
         THEN [rs |-> [m.rs EXCEPT !.iterator = DoneIterator], line |-> NoItem,
               polls |-> <<PollOf(rs)>>]
         ELSE IF m.ret
         THEN LET r == ReadLine([m.rs EXCEPT !.iterator =
                                    [st |-> "open", buf |-> << >>,
                                     ospos |-> m.rs.last_position]], greedy)
              IN  [rs |-> r.rs, line |-> r.line, polls |-> <<PollOf(rs)>>]
         ELSE [rs |-> [m.rs EXCEPT !.iterator = DoneIterator], line |-> NoItem,
               polls |-> <<PollOf(rs)>>]
    ELSE LET r == ReadLine(rs, greedy)
         IN  [rs |-> r.rs, line |-> r.line, polls |-> << >>]

\* get_new_line: the next line, or "" (NoItem) after a second, fresh pass
\* found nothing.
get_new_line(rs, greedy) ==
    LET a == NextOfIterator(rs, greedy) IN
    IF a.line.part # "none" THEN a
    ELSE LET b == NextOfIterator([a.rs EXCEPT !.iterator = NewIterator], greedy)
         IN  [b EXCEPT !.polls = a.polls \o b.polls]

\* set_last_position
set_last_position(rs, new_position) == [rs EXCEPT !.last_position = new_position]

\* reset_file_modified_timestamp
reset_file_modified_timestamp(rs) == [rs EXCEPT !.cached_stamp = 0]

\* The reader's fields as one value.
RS == [last_position |-> last_position, cached_stamp |-> cached_stamp,
       iterator |-> iterator]

SetRS(rs) ==
    /\ last_position' = rs.last_position
    /\ cached_stamp' = rs.cached_stamp
    /\ iterator' = rs.iterator
    /\ reader' = reader

\* get_chat_message that stops at the first line that yields no message.
get_chat_message_OneLine(rs, working, players, f, greedy, trace, polls) ==
    LET g == get_new_line(rs, greedy)
        p == polls \o g.polls
    IN
    IF g.line.text = EMPTY
    THEN {[rs |-> g.rs, working |-> working, players |-> players, f |-> f,
           ret |-> EMPTY, exc |-> "none", trace |-> trace, polls |-> p]}
    ELSE {[rs |-> g.rs, working |-> o.working, players |-> o.players,
           f |-> o.f, ret |-> RStrip(o.ret), exc |-> o.exc,
           trace |-> Append(trace, [idx |-> g.line.idx, part |-> g.line.part,
                                    ret |-> o.ret, exc |-> o.exc]),
           polls |-> p] :
           o \in extract_chat_message(working, players, f, g.line.text)}

\* get_chat_message: every outcome of one call.  trace lists, for each line
\* the call took from the reader, the item and what extract_chat_message
\* made of it.
\* polls lists what the reader's calls of is_file_modified found.
RECURSIVE get_chat_message(_, _, _, _, _, _, _)
get_chat_message(rs, working, players, f, greedy, trace, polls) ==
    LET g == get_new_line(rs, greedy)
        p == polls \o g.polls
    IN
    IF g.line.text = EMPTY
    THEN {[rs |-> g.rs, working |-> working, players |-> players, f |-> f,
           ret |-> EMPTY, exc |-> "none", trace |-> trace, polls |-> p]}
    ELSE UNION {
           LET t == Append(trace, [idx |-> g.line.idx, part |-> g.line.part,
                                   ret |-> o.ret, exc |-> o.exc]) IN
           IF o.exc # "none"
           THEN {[rs |-> g.rs, working |-> o.working, players |-> o.players,
                  f |-> o.f, ret |-> EMPTY, exc |-> o.exc, trace |-> t,
                  polls |-> p]}
           ELSE IF o.ret # EMPTY
           THEN {[rs |-> g.rs, working |-> o.working, players |-> o.players,
                  f |-> o.f, ret |-> RStrip(o.ret), exc |-> "none", trace |-> t,
                  polls |-> p]}
           ELSE get_chat_message(g.rs, o.working, o.players, o.f, greedy, t, p) :
           o \in extract_chat_message(working, players, f, g.line.text)}

-----------------------------------------------------------------------------
(* FileChangesUtillity and FileChangesHandler of src/src/log_parser/parser.py: *)
(* the reader whose lines a worker thread places in a buffer                   *)

\* is_file_modified of log_parser/parser.py: as the one above, with no try,
\* so that an exception of os.stat or of os.path.getsize leaves it; the
\* stamp is cached before getsize is called.
parser_is_file_modified(rs) ==
    IF fault.log \in {"stat", "absent"}
    THEN [rs |-> rs, ret |-> FALSE, exc |-> "OSError"]
    ELSE IF mtime # rs.cached_stamp /\ fault.log = "getsize"
    THEN [rs |-> [rs EXCEPT !.cached_stamp = mtime], ret |-> FALSE, exc |-> "OSError"]
    ELSE [rs |-> is_file_modified(rs).rs, ret |-> is_file_modified(rs).ret,
          exc |-> "none"]

\* What the readline loop yields from byte p to the end of the file.
RECURSIVE ItemsFrom(_)
ItemsFrom(p) ==
    IF ItemAt(p).part = "none" THEN << >>
    ELSE <<ItemAt(p)>> \o ItemsFrom(p + ItemBytes(ItemAt(p)))

\* get_new_lines run to its end: the lines it yields and the offset it
\* stores.  open() or readline() raising is caught, and nothing is stored.
get_new_lines(rs) ==
    IF fault.log \in {"open", "read", "absent"}
    THEN [rs |-> rs, lines |-> << >>]
    ELSE [rs    |-> [rs EXCEPT !.last_position =
                                  IF @ >= getsize THEN @ ELSE getsize],
          lines |-> ItemsFrom(rs.last_position)]

\* One iteration of file_observer after its sleep, with is_file_modified
\* called before the buffer is looked at.
file_observer_PollsFirst(rs, buffer, max_buffer_len) ==
    LET m == parser_is_file_modified(rs) IN
    IF m.exc # "none" THEN [rs |-> m.rs, found |-> "raised", exc |-> m.exc]
    ELSE IF max_buffer_len < Len(buffer)
    THEN [rs |-> m.rs, found |-> "overloaded", exc |-> "none"]
    ELSE [rs |-> m.rs, found |-> IF m.ret THEN "modified" ELSE "unmodified",
          exc |-> "none"]

\* One iteration of file_observer after its sleep, up to the call of
\* _save_new_lines: what it found, and the reader as is_file_modified left it.
file_observer(rs, buffer, max_buffer_len) ==
    IF max_buffer_len < Len(buffer)
    THEN [rs |-> rs, found |-> "overloaded", exc |-> "none"]
    ELSE LET m == parser_is_file_modified(rs) IN
         IF m.exc # "none" THEN [rs |-> m.rs, found |-> "raised", exc |-> m.exc]
         ELSE [rs |-> m.rs, found |-> IF m.ret THEN "modified" ELSE "unmodified",
               exc |-> "none"]

-----------------------------------------------------------------------------
(* AIOMcRcon (src/src/rcon_sender/rcon.py) *)

\* The client is the record rc: _ready, the reconnection tasks it started
\* and that have not finished, and the connections made so far.  What
\* aiomcrcon.Client does is taken as the tests of the repository stand in
\* for it: connect sets _ready, close clears it, send_cmd returns or raises.

\* aiomcrcon.Client.close
close(rc) == [rc EXCEPT !.ready = FALSE]

\* AIOMcRcon.connect when the server accepts the connection: the loop is
\* left at once when _ready is set already.
connect(rc) ==
    IF rc.ready THEN rc
    ELSE [rc EXCEPT !.ready = TRUE, !.connects = @ + 1]

\* AIOMcRcon.send_cmd that raises RCONSendCmdError and leaves the client as
\* it is.
send_cmd_NoReconnect(rc, raised) ==
    IF raised THEN [rc |-> rc, exc |-> "RCONSendCmdError"]
    ELSE [rc |-> rc, exc |-> "none"]

\* AIOMcRcon.send_cmd that closes and reconnects without looking at _ready.
send_cmd_AlwaysReconnect(rc, raised) ==
    IF ~raised THEN [rc |-> rc, exc |-> "none"]
    ELSE [rc |-> [close(rc) EXCEPT !.tasks = @ + 1], exc |-> "RCONSendCmdError"]

\* AIOMcRcon.send_cmd: raised tells whether the send_cmd of aiomcrcon.Client
\* raised an Exception.  asyncio.create_task(self.connect()) adds a task.
send_cmd(rc, raised) ==
    IF ~raised THEN [rc |-> rc, exc |-> "none"]
    ELSE IF rc.ready
    THEN [rc |-> [close(rc) EXCEPT !.tasks = @ + 1], exc |-> "RCONSendCmdError"]
    ELSE [rc |-> rc, exc |-> "RCONSendCmdError"]

-----------------------------------------------------------------------------
(* The Discord bot (src/src/discord_bot/bot_main.py) *)

FAILURE_NOTICE == <<Sym("# Could not get the list of players.")>>
    \* "Не удалось получить список игроков."

\* What the server answers to '/forge tps' and to '/list': send_cmd of
\* aiomcrcon.Client returns the pair (answer, request id).
TpsAnswer  == <<Sym("Overall: Mean tick time: 1.2 ms. Mean TPS: 20.0")>>
ListAnswer == <<Sym("There are 2 of a max of 20 players online:")>>

\* check_chat_messages, given the outcome o of get_chat_message: whether
\* bot.channel.send is called, with what text, and whether the RCON client
\* reconnects.  What get_chat_message returns is sent as it is; ServerStarted
\* and ServerStopped (which chat_parser.py never raises) are sent as their
\* text; any other exception is caught and logged.
check_chat_messages(o) ==
    IF o.exc = "none"
    THEN [sent |-> TRUE, text |-> o.ret, reconnect |-> FALSE]
    ELSE IF o.exc \in {"ServerStarted", "ServerStopped"}
    THEN [sent |-> TRUE, text |-> <<Sym(o.exc)>>,
          reconnect |-> (o.exc = "ServerStarted")]
    ELSE [sent |-> FALSE, text |-> EMPTY, reconnect |-> FALSE]

\* The body of get_server_tps and of get_list_of_players in the channel of
\* the bot: the local variable is bound only when send_cmd returned, and it
\* is read after the try statement in both cases.
command_handler(rc, raised, answer) ==
    LET o == IF rc.made THEN send_cmd(rc, raised)
             ELSE [rc |-> rc, exc |-> "RCONSendCmdError"]
    IN  IF o.exc # "none"
        THEN [rc |-> o.rc, reply |-> EMPTY, exc |-> "UnboundLocalError"]
        ELSE IF answer # EMPTY
        THEN [rc |-> o.rc, reply |-> answer, exc |-> "none"]
        ELSE [rc |-> o.rc, reply |-> FAILURE_NOTICE, exc |-> "none"]

get_server_tps(rc, raised) == command_handler(rc, raised, TpsAnswer)

\* players_list[0].rstrip(":")
get_list_of_players(rc, raised) ==
    LET k == command_handler(rc, raised, ListAnswer) IN
    [k EXCEPT !.reply = IF @ = ListAnswer
                        THEN <<Sym("There are 2 of a max of 20 players online")>>
                        ELSE @]

-----------------------------------------------------------------------------
(* Bounds and the inputs of the model *)

\* The connections the RCON client makes.
MaxConnects == 4

\* The failing sends in a row that are counted.
MaxStreak == 3

\* How many times start() is called.
MaxStarts == 2

\* The send_cmd calls that may be under way at the same time.
MaxCalls == 2

\* FileChangesHandler._max_buffer_len
MaxBufferLen == 1

\* The console commands of bot_main.py.
Commands == {"/list", "/forge tps", "/say hi"}

\* The writes (appends, truncations) made to the monitored file.
MaxWrites == 3

Players == {"Steve", "STEVE", "Alex"}

ChatLine(prefix, u)  == <<TS, prefix, Angle(u), Name("hi")>>
EventLine(prefix, u) == <<TS, prefix, Name(u), Name("joined"), Name("game")>>
VanishLine(u)   == <<TS, P_MS, Obr(u), VANISHMOD, Name(u), VANISHED_END>>
UnvanishLine(u) == <<TS, P_MS, Obr(u), VANISHMOD, Name(u), UNVANISHED_END>>
StoppingLine    == <<TS, P_MS, Name("Stopping"), Name("server")>>
StartingLine    == <<TS, MODLAUNCHER>>
VoiceChatLine   == <<TS, VOICECHAT>>
RconRunLine     == <<TS, RCONRUN>>
RconStoppedLine == <<TS, P_MS, RCON_TAG, Name("SERVER"), Sym("STOPPED...")>>
RconStartedLine == <<TS, P_MS, RCON_TAG, Name("SERVER"), Sym("STARTED!!!")>>
NotSecureLine(u) == <<TS, P_MS, P_NS, Angle(u), Name("hi")>>
NotSecureOnlyLine(u) == <<TS, P_NS, Angle(u), Name("hi")>>
\* A chat message whose text holds the literal "[Not Secure] ".
QuotingLine(u, v) ==
    <<TS, P_DS, Angle(u), Name("look"), P_NS, Name(v), Name("joined"), Name("game")>>
GameModeLine    == <<TS, P_DS, Obr("Steve"), Name("Set"), Name("own"), Sym("Mode]")>>
NoPrefixLine    == <<TS, <<"br", "[main/INFO]">>, Name("Steve"), Name("joined"), Name("game")>>
OneWordLine     == <<TS, P_DS, Name("Done")>>
\* Text of the shape of an event, with no timestamp and no prefix.
RawLine         == <<Name("Steve"), Name("joined"), Name("game")>>

StatusLines == {StoppingLine, StartingLine, VoiceChatLine, RconRunLine}

Lines ==
    {ChatLine(P_DS, u) : u \in Players} \cup {ChatLine(P_MS, "Steve")}
    \cup {EventLine(P_DS, u) : u \in Players}
    \cup {NotSecureLine("Steve"), NotSecureOnlyLine("Steve"), QuotingLine("Steve", "Alex")}
    \cup {VanishLine("Steve"), UnvanishLine("Steve")}
    \cup StatusLines
    \cup {RconStoppedLine, RconStartedLine, GameModeLine, NoPrefixLine, OneWordLine,
          RawLine}

\* What extract_chat_message is called with: a line as written, or as read
\* from the file, with its terminator.
Messages == Lines \cup {Append(l, NL) : l \in Lines}

\* What process_message is called with: message bodies.
Bodies == {StripPrefixes(l) : l \in Lines}

TailLines == {ChatLine(P_DS, "Steve"), EventLine(P_DS, "Alex")}

PumpLines == {ChatLine(P_DS, "Steve"), EventLine(P_DS, "Alex"), StoppingLine,
              RconRunLine, GameModeLine, VanishLine("Steve")}

DataFiles ==
    {[kind |-> "missing", items |-> << >>],
     [kind |-> "corrupt", items |-> << >>],
     [kind |-> "dict", items |-> << >>],
     [kind |-> "list", items |-> << >>],
     [kind |-> "list", items |-> <<"steve">>],
     [kind |-> "list", items |-> <<"alex", "steve">>]}

\* A storage file written by hand: a valid JSON list whose name is not
\* lowercase.
MixedCaseDataFiles == {[kind |-> "list", items |-> <<"Steve">>]}

\* Storage files that are there and cannot be read as a list of names.
BadDataFiles ==
    {[kind |-> "unreadable", items |-> << >>],
     [kind |-> "undecodable", items |-> << >>],
     [kind |-> "nested", items |-> << >>]}

-----------------------------------------------------------------------------
(* State, construction and the operations *)

\* Nothing fails.
NoFault == [log |-> "none", data |-> FALSE]

NoCall(op) ==
    [op |-> op, arg |-> EMPTY, n |-> 0, ret |-> EMPTY, flag |-> FALSE,
     exc |-> "none", item |-> NoItem, polls |-> << >>, trace |-> << >>]

\* A call of _vanish_player or _unvanish_player: the name given, the set
\* and the kind of the storage file before it, and the name and the set of
\* the call made right before it.
NoVanishOp ==
    [op |-> "none", name |-> "", pre |-> {}, pre_kind |-> "none",
     prior_op |-> "none", prior_name |-> "", prior_pre |-> {}]

VanishOp(op, username) ==
    [op |-> op, name |-> username, pre |-> vanished_players,
     pre_kind |-> data_file.kind,
     prior_op |-> hist.vprev.op, prior_name |-> hist.vprev.name,
     prior_pre |-> hist.vprev.pre]

\* FileChangesUtillity.__init__ with the offset at the start of the file.
InitReader_FromStart ==
    /\ last_position = 0
    /\ cached_stamp = mtime
    /\ iterator = NewIterator
    /\ reader = "chat_parser.log_parser"

\* FileChangesUtillity.__init__: the offset is the size of the file, then
\* is_file_modified() caches the stamp, then the generator is created.
InitReader ==
    LET rs == is_file_modified([last_position |-> getsize, cached_stamp |-> 0,
                                iterator |-> NewIterator]).rs
    IN  /\ last_position = rs.last_position
        /\ cached_stamp = rs.cached_stamp
        /\ iterator = rs.iterator
        /\ reader = "chat_parser.log_parser"

InitFile(contents) ==
    /\ file \in contents
    /\ partial = FALSE
    /\ mtime = 1
    /\ fault = NoFault

\* MinecraftChatParser.__init__ and VanishHandlerBase.__init__
InitParser(workings, files) ==
    /\ is_server_working \in workings
    /\ data_file \in files
    /\ vanished_players = _load_data(data_file)

\* The failing calls of send_cmd made in a row with no connect completed in
\* between: how many, the tasks they created, and whether the client was
\* ready at the first.
NoStreak == [n |-> 0, made |-> 0, ready |-> FALSE]

\* AIOMcRcon.__init__: not connected, no reconnection task, and no send_cmd
\* call under way (calls[h] is where call h is: "idle", "sending" while it
\* awaits the send of aiomcrcon.Client, "closing" while it awaits close()).
NewRcon ==
    [ready |-> FALSE, tasks |-> 0, connects |-> 0,
     calls |-> [h \in 1..MaxCalls |-> "idle"], made |-> TRUE]

\* bot.aiomcrcon before on_ready has run: None.
NoRcon == [NewRcon EXCEPT !.made = FALSE]

InitRcon ==
    rcon = NewRcon

\* A worker thread: where it is in file_observer ("check" at the test of
\* is_working(), "sleep", "save" before _save_new_lines, "read" inside
\* get_new_lines, "exited", or "dead" after an exception), and the offset its
\* file object was set to by file.seek.
Thread(pc) == [pc |-> pc, pos |-> 0]

\* FileCnageObserver.__init__, and start() when started.
InitObserver(started) ==
    /\ line_buffer = << >>
    /\ is_working = started
    /\ threads = IF started THEN <<Thread("check")>> ELSE << >>

InitObs ==
    /\ call = NoCall("init")
    /\ hist = [delivered |-> Len(file), truncated |-> FALSE, seeked |-> FALSE,
               torn |-> FALSE, polled |-> FALSE, rotated |-> FALSE,
               vprev |-> NoVanishOp, written |-> FALSE,
               late |-> [t \in 1..Len(threads) |-> 0],
               preexisting |-> Len(file),
               streak |-> NoStreak, overloaded |-> FALSE, armed |-> FALSE]

(* The monitored file, written by the server *)

AppendLine(l) ==
    /\ mtime <= MaxWrites
    /\ ~partial
    /\ file' = Append(file, l)
    /\ mtime' = mtime + 1
    /\ call' = NoCall("append")
    /\ hist' = [hist EXCEPT !.armed = FALSE]
    /\ UNCHANGED <<partial, fault, readerVars, parserVars, rcon, observerVars>>

\* A line written in two parts: first its content ...
WritePartial(l) ==
    /\ mtime <= MaxWrites
    /\ ~partial
    /\ file' = Append(file, l)
    /\ partial' = TRUE
    /\ mtime' = mtime + 1
    /\ call' = NoCall("write_partial")
    /\ hist' = [hist EXCEPT !.torn = TRUE, !.armed = FALSE]
    /\ UNCHANGED <<fault, readerVars, parserVars, rcon, observerVars>>

\* ... then its terminator.
CompleteLine ==
    /\ mtime <= MaxWrites
    /\ partial
    /\ partial' = FALSE
    /\ mtime' = mtime + 1
    /\ call' = NoCall("complete_line")
    /\ hist' = [hist EXCEPT !.armed = FALSE]
    /\ UNCHANGED <<file, fault, readerVars, parserVars, rcon, observerVars>>

\* The file truncated in place (open(path, "w")), as a log rotation does.
Truncate ==
    /\ mtime <= MaxWrites
    /\ file' = << >>
    /\ partial' = FALSE
    /\ mtime' = mtime + 1
    /\ call' = NoCall("truncate")
    /\ hist' = [hist EXCEPT !.truncated = TRUE, !.rotated = TRUE,
                            !.delivered = 0, !.preexisting = 0,
                            !.armed = FALSE]
    /\ UNCHANGED <<fault, readerVars, parserVars, rcon, observerVars>>

\* The monitored file starts or stops failing at one step of a read:
\* os.stat, os.path.getsize, open() or readline().
SetLogFault(k) ==
    /\ fault.log # k
    /\ fault' = [fault EXCEPT !.log = k]
    /\ call' = NoCall("set_fault")
    /\ UNCHANGED <<file, partial, mtime, readerVars, parserVars, hist, rcon, observerVars>>

\* The data file of the vanish handler starts or stops refusing writes.
SetDataFault(b) ==
    /\ fault.data # b
    /\ fault' = [fault EXCEPT !.data = b]
    /\ call' = NoCall("set_fault")
    /\ UNCHANGED <<file, partial, mtime, readerVars, parserVars, hist, rcon, observerVars>>

(* FileChangesUtillity *)

\* FileChangesUtillity(filename) of the given module on the monitored path.
\* When __init__ raises no reader is made, and what there was stays.
NewReader(module) ==
    LET c == FileChangesUtillity_init(module) IN
    /\ call' = [NoCall("FileChangesUtillity.__init__") EXCEPT
                    !.arg = <<Sym(module)>>, !.exc = c.exc]
    /\ IF c.exc = "none"
       THEN /\ last_position' = c.rs.last_position
            /\ cached_stamp' = c.rs.cached_stamp
            /\ iterator' = c.rs.iterator
            /\ reader' = module
       ELSE UNCHANGED readerVars
    /\ UNCHANGED <<fsVars, parserVars, hist, rcon, observerVars>>

GetNewLine ==
    \E greedy \in BOOLEAN :
        LET g == get_new_line(RS, greedy) IN
        /\ SetRS(g.rs)
        /\ call' = [NoCall("get_new_line") EXCEPT !.ret = g.line.text,
                                                  !.item = g.line,
                                                  !.polls = g.polls]
        /\ hist' = [hist EXCEPT
                        !.delivered = IF g.line.part = "none" \/ g.line.idx < @
                                      THEN @ ELSE g.line.idx,
                        !.rotated = IF g.polls = << >> THEN @ ELSE FALSE,
                        !.armed = FALSE]
        /\ UNCHANGED <<fsVars, parserVars, rcon, observerVars>>

IsFileModified ==
    LET m == is_file_modified(RS) IN
    /\ SetRS(m.rs)
    /\ call' = [NoCall("is_file_modified") EXCEPT !.flag = m.ret,
                                                  !.polls = <<PollOf(RS)>>]
    /\ hist' = [hist EXCEPT !.polled = TRUE, !.rotated = FALSE, !.armed = FALSE]
    /\ UNCHANGED <<fsVars, parserVars, rcon, observerVars>>

SetLastPosition(new_position) ==
    /\ SetRS(set_last_position(RS, new_position))
    /\ call' = [NoCall("set_last_position") EXCEPT !.n = new_position]
    /\ hist' = [hist EXCEPT !.seeked = TRUE, !.armed = FALSE]
    /\ UNCHANGED <<fsVars, parserVars, rcon, observerVars>>

ResetFileModifiedTimestamp ==
    /\ SetRS(reset_file_modified_timestamp(RS))
    /\ call' = NoCall("reset_file_modified_timestamp")
    /\ hist' = [hist EXCEPT !.armed = (call.op = "set_last_position")]
    /\ UNCHANGED <<fsVars, parserVars, rcon, observerVars>>

(* MinecraftChatParser and the vanish handler *)

ExtractChatMessage(message) ==
    \E o \in extract_chat_message(is_server_working, vanished_players,
                                  data_file, message) :
        /\ is_server_working' = o.working
        /\ vanished_players' = o.players
        /\ data_file' = o.f
        /\ call' = [NoCall("extract_chat_message") EXCEPT
                        !.arg = message, !.ret = o.ret, !.exc = o.exc]
        /\ hist' = [hist EXCEPT !.vprev = NoVanishOp,
                                !.written = IF o.f # data_file \/ o.players # vanished_players
                                       THEN o.exc = "none" ELSE @]
        /\ UNCHANGED <<fsVars, readerVars, rcon, observerVars>>

\* The loop of extract_chat_message that strips the prefixes, on its own.
Strip(message) ==
    /\ call' = [NoCall("strip") EXCEPT !.arg = message,
                                       !.ret = StripPrefixes(message)]
    /\ hist' = [hist EXCEPT !.vprev = NoVanishOp]
    /\ UNCHANGED <<fsVars, readerVars, parserVars, rcon, observerVars>>

ProcessMessage(msg) ==
    \E o \in process_message(vanished_players, data_file, msg) :
        /\ vanished_players' = o.players
        /\ data_file' = o.f
        /\ call' = [NoCall("process_message") EXCEPT
                        !.arg = msg, !.ret = o.ret, !.exc = o.exc]
        /\ hist' = [hist EXCEPT !.vprev = NoVanishOp,
                                !.written = IF o.f # data_file \/ o.players # vanished_players
                                       THEN o.exc = "none" ELSE @]
        /\ UNCHANGED <<fsVars, readerVars, is_server_working, rcon, observerVars>>

\* VanishHandlerBase.__init__ on storage file f.  When _load_data raises
\* no handler is made, and the handler there was stays.
NewVanishHandler(f) ==
    LET exc == _load_data_exc(f) IN
    /\ call' = [NoCall("VanishHandlerBase.__init__") EXCEPT
                    !.arg = <<Sym(f.kind)>>, !.exc = exc]
    /\ IF exc = "none"
       THEN /\ data_file' = f
            /\ vanished_players' = _load_data(f)
       ELSE UNCHANGED <<data_file, vanished_players>>
    /\ hist' = [hist EXCEPT !.vprev = NoVanishOp,
                            !.written = IF exc = "none" THEN FALSE ELSE @]
    /\ UNCHANGED <<fsVars, readerVars, is_server_working, rcon, observerVars>>

\* The bot is started again: VanishHandlerBase.__init__ on the storage file
\* the handler before left.  The call records whether that handler wrote
\* the file at its last change of the set.
RestartVanishHandler ==
    LET exc == _load_data_exc(data_file) IN
    /\ call' = [NoCall("VanishHandlerBase.__init__") EXCEPT
                    !.arg = <<Sym(data_file.kind)>>, !.exc = exc,
                    !.flag = hist.written, !.n = 1]
    /\ vanished_players' = _load_data(data_file)
    /\ hist' = [hist EXCEPT !.vprev = NoVanishOp, !.written = FALSE]
    /\ UNCHANGED <<fsVars, readerVars, is_server_working, data_file, rcon,
                   observerVars>>

VanishPlayer(username) ==
    \E h \in _vanish_player(vanished_players, data_file, username) :
        /\ vanished_players' = h.players
        /\ data_file' = h.f
        /\ call' = [NoCall("_vanish_player") EXCEPT !.arg = <<Name(username)>>,
                                                     !.exc = h.exc]
        /\ hist' = [hist EXCEPT !.vprev = VanishOp("vanish", username),
                                !.written = (h.exc = "none")]
        /\ UNCHANGED <<fsVars, readerVars, is_server_working, rcon, observerVars>>

UnvanishPlayer(username) ==
    \E h \in _unvanish_player(vanished_players, data_file, username) :
        /\ vanished_players' = h.players
        /\ data_file' = h.f
        /\ call' = [NoCall("_unvanish_player") EXCEPT !.arg = <<Name(username)>>,
                                                       !.exc = h.exc]
        /\ hist' = [hist EXCEPT !.vprev = VanishOp("unvanish", username),
                                !.written =
                                    IF Lower(username) \in vanished_players
                                    THEN h.exc = "none" ELSE @]
        /\ UNCHANGED <<fsVars, readerVars, is_server_working, rcon, observerVars>>

GetChatMessage ==
    \E greedy \in BOOLEAN :
        \E o \in get_chat_message(RS, is_server_working, vanished_players,
                                  data_file, greedy, << >>, << >>) :
            /\ SetRS(o.rs)
            /\ is_server_working' = o.working
            /\ vanished_players' = o.players
            /\ data_file' = o.f
            /\ call' = [NoCall("get_chat_message") EXCEPT
                            !.n = hist.delivered, !.ret = o.ret, !.exc = o.exc,
                            !.trace = o.trace, !.polls = o.polls]
            /\ hist' = [hist EXCEPT
                            !.delivered =
                                IF o.trace = << >> \/ o.trace[Len(o.trace)].idx < @
                                THEN @ ELSE o.trace[Len(o.trace)].idx,
                            !.rotated = IF o.polls = << >> THEN @ ELSE FALSE,
                            !.vprev = NoVanishOp,
                            !.written =
                                IF o.f # data_file \/ o.players # vanished_players
                                THEN o.exc = "none" ELSE @]
            /\ UNCHANGED <<fsVars, rcon, observerVars>>

(* FileChangesHandler and FileCnageObserver *)

\* The loop of file_observer as 'while True': the flag is not looked at.
ObserverCheck_IgnoresFlag(t) ==
    /\ threads[t].pc = "check"
    /\ threads' = [threads EXCEPT ![t].pc = "sleep"]
    /\ call' = [NoCall("is_working") EXCEPT !.n = t, !.flag = is_working]
    /\ UNCHANGED <<fsVars, readerVars, parserVars, rcon, line_buffer, is_working,
                   hist>>

\* Thread t of file_observer evaluates is_working(): it goes to sleep, or
\* leaves the loop.
ObserverCheck(t) ==
    /\ threads[t].pc = "check"
    /\ threads' = [threads EXCEPT ![t].pc = IF is_working THEN "sleep" ELSE "exited"]
    /\ call' = [NoCall("is_working") EXCEPT !.n = t, !.flag = is_working]
    /\ UNCHANGED <<fsVars, readerVars, parserVars, rcon, line_buffer, is_working,
                   hist>>

\* Thread t wakes up: the test of the buffer and is_file_modified.  An
\* exception ends the thread.
ObserverTick(t) ==
    LET k == file_observer(RS, line_buffer, MaxBufferLen) IN
    /\ threads[t].pc = "sleep"
    /\ SetRS(k.rs)
    /\ threads' = [threads EXCEPT ![t].pc =
                       CASE k.found = "modified" -> "save"
                         [] k.found = "raised"   -> "dead"
                         [] OTHER                -> "check"]
    /\ call' = [NoCall("file_observer") EXCEPT
                    !.n = t, !.arg = <<Sym(k.found)>>, !.exc = k.exc,
                    !.polls = IF k.found = "overloaded" THEN << >>
                              ELSE <<PollOf(RS)>>]
    /\ hist' = [hist EXCEPT !.overloaded = @ \/ k.found = "overloaded",
                            !.late[t] = IF is_working THEN 0
                                         ELSE IF @ < 2 THEN @ + 1 ELSE @]
    /\ UNCHANGED <<fsVars, parserVars, rcon, line_buffer, is_working>>

\* Thread t runs _save_new_lines.
ObserverSave(t) ==
    LET g == get_new_lines(RS) IN
    /\ threads[t].pc = "save"
    /\ SetRS(g.rs)
    /\ line_buffer' = line_buffer \o g.lines
    /\ threads' = [threads EXCEPT ![t].pc = "check"]
    /\ call' = [NoCall("_save_new_lines") EXCEPT !.n = Len(g.lines),
                                                 !.flag = hist.overloaded]
    /\ hist' = [hist EXCEPT !.overloaded = FALSE]
    /\ UNCHANGED <<fsVars, parserVars, rcon, is_working>>

\* Thread t enters get_new_lines: the file is opened and file.seek sets it
\* to the stored offset.  open() raising is caught, and the pass is over.
ObserverSeek(t) ==
    /\ threads[t].pc = "save"
    /\ threads' = [threads EXCEPT ![t] =
                       IF fault.log \in {"open", "absent"}
                       THEN Thread("check")
                       ELSE [pc |-> "read", pos |-> last_position]]
    /\ call' = [NoCall("get_new_lines") EXCEPT !.n = t]
    /\ UNCHANGED <<fsVars, readerVars, parserVars, rcon, line_buffer, is_working,
                   hist>>

\* Thread t reads the file from where its file object is to the end: the
\* lines go to the buffer and file.tell() is stored.
ObserverRead(t) ==
    LET g == get_new_lines([RS EXCEPT !.last_position = threads[t].pos]) IN
    /\ threads[t].pc = "read"
    /\ IF fault.log = "read"
       THEN UNCHANGED readerVars
       ELSE SetRS(g.rs)
    /\ line_buffer' = line_buffer \o g.lines
    /\ threads' = [threads EXCEPT ![t] = Thread("check")]
    /\ call' = [NoCall("_save_new_lines") EXCEPT !.n = Len(g.lines),
                                                 !.flag = hist.overloaded]
    /\ hist' = [hist EXCEPT !.overloaded = FALSE]
    /\ UNCHANGED <<fsVars, parserVars, rcon, is_working>>

\* FileCnageObserver.start: the flag is set and one more thread runs
\* file_observer.
Start ==
    /\ Len(threads) < MaxStarts
    /\ is_working' = TRUE
    /\ threads' = Append(threads, Thread("check"))
    /\ call' = [NoCall("start") EXCEPT !.n = Len(threads) + 1]
    /\ hist' = [hist EXCEPT !.late = [t \in 1..(Len(threads) + 1) |-> 0]]
    /\ UNCHANGED <<fsVars, readerVars, parserVars, rcon, line_buffer>>

\* FileCnageObserver.stop: the flag is cleared, and nothing else is done.
Stop ==
    /\ is_working' = FALSE
    /\ call' = [NoCall("stop") EXCEPT !.flag = is_working]
    /\ hist' = [hist EXCEPT !.late = [t \in 1..Len(threads) |-> 0]]
    /\ UNCHANGED <<fsVars, readerVars, parserVars, rcon, line_buffer, threads>>

\* FileChangesHandler.get_new_line, called by the consumer.
HandlerGetNewLine ==
    LET item == IF line_buffer = << >> THEN NoItem ELSE Head(line_buffer) IN
    /\ line_buffer' = IF line_buffer = << >> THEN << >> ELSE Tail(line_buffer)
    /\ call' = [NoCall("FileChangesHandler.get_new_line") EXCEPT
                    !.ret = item.text, !.item = item, !.n = hist.delivered]
    /\ hist' = [hist EXCEPT !.delivered = IF item.part = "none" \/ item.idx < @
                                          THEN @ ELSE item.idx]
    /\ UNCHANGED <<fsVars, readerVars, parserVars, rcon, is_working, threads>>

(* AIOMcRcon *)

\* await client.connect() once the server accepts the connection.
RconConnect ==
    /\ rcon.connects < MaxConnects
    /\ rcon' = connect(rcon)
    /\ call' = [NoCall("connect") EXCEPT !.flag = rcon.ready]
    /\ hist' = [hist EXCEPT !.streak = NoStreak]
    /\ UNCHANGED <<fsVars, readerVars, parserVars, observerVars>>

\* A task of asyncio.create_task(self.connect()) runs to its end.
ReconnectTask ==
    /\ rcon.tasks > 0
    /\ rcon.ready \/ rcon.connects < MaxConnects
    /\ rcon' = [connect(rcon) EXCEPT !.tasks = @ - 1]
    /\ call' = [NoCall("connect_task") EXCEPT !.flag = rcon.ready]
    /\ hist' = [hist EXCEPT !.streak = NoStreak]
    /\ UNCHANGED <<fsVars, readerVars, parserVars, observerVars>>

\* await client.close()
RconClose ==
    /\ rcon' = close(rcon)
    /\ call' = [NoCall("close") EXCEPT !.flag = rcon.ready]
    /\ UNCHANGED <<fsVars, readerVars, parserVars, hist, observerVars>>

\* await client.send_cmd(cmd).  The underlying send returns only on a client
\* that is connected; it may raise at any time.
RconSendCmd(cmd, raised) ==
    LET o == send_cmd(rcon, raised) IN
    /\ raised \/ rcon.ready
    /\ rcon' = o.rc
    /\ call' = [NoCall("send_cmd") EXCEPT !.arg = <<Sym(cmd)>>, !.flag = raised,
                                          !.exc = o.exc]
    /\ hist' = [hist EXCEPT !.streak =
                    IF ~raised THEN NoStreak
                    ELSE [n     |-> IF @.n < MaxStreak THEN @.n + 1 ELSE @.n,
                          made  |-> @.made + (o.rc.tasks - rcon.tasks),
                          ready |-> IF @.n = 0 THEN rcon.ready ELSE @.ready]]
    /\ UNCHANGED <<fsVars, readerVars, parserVars, observerVars>>

\* Call h of send_cmd starts: it awaits the send of aiomcrcon.Client.
SendBegin(h) ==
    /\ rcon.calls[h] = "idle"
    /\ rcon' = [rcon EXCEPT !.calls[h] = "sending"]
    /\ call' = [NoCall("send_cmd_begin") EXCEPT !.n = h]
    /\ UNCHANGED <<fsVars, readerVars, parserVars, hist, observerVars>>

\* The send of call h returns; the client is connected.
SendReturn(h) ==
    /\ rcon.calls[h] = "sending"
    /\ rcon.ready
    /\ rcon' = [rcon EXCEPT !.calls[h] = "idle"]
    /\ call' = [NoCall("send_cmd_return") EXCEPT !.n = h]
    /\ UNCHANGED <<fsVars, readerVars, parserVars, hist, observerVars>>

\* The send of call h raises.  On a client that is not ready the handler
\* raises RCONSendCmdError at once; on a ready one it awaits close(), which
\* clears _ready before it is suspended (early) or when it is resumed.
SendRaise(h, early) ==
    /\ rcon.calls[h] = "sending"
    /\ rcon' = IF rcon.ready
               THEN [rcon EXCEPT !.calls[h] = "closing",
                                 !.ready = IF early THEN FALSE ELSE @]
               ELSE [rcon EXCEPT !.calls[h] = "idle"]
    /\ call' = [NoCall("send_cmd_raise") EXCEPT !.n = h, !.flag = rcon.ready,
                    !.exc = IF rcon.ready THEN "none" ELSE "RCONSendCmdError"]
    /\ UNCHANGED <<fsVars, readerVars, parserVars, hist, observerVars>>

\* close() of call h returns: the reconnection task is created and
\* RCONSendCmdError is raised.
CloseReturn(h) ==
    /\ rcon.calls[h] = "closing"
    /\ rcon.tasks < MaxCalls + 1
    /\ rcon' = [close(rcon) EXCEPT !.tasks = @ + 1, !.calls[h] = "idle"]
    /\ call' = [NoCall("send_cmd_closed") EXCEPT !.n = h,
                                                !.exc = "RCONSendCmdError"]
    /\ UNCHANGED <<fsVars, readerVars, parserVars, hist, observerVars>>

(* The Discord bot *)

\* on_ready: the parser and the RCON client are made, the client connects,
\* the polling task is started and '/say Discord joined the game' is sent.
OnReady(raised) ==
    LET o == send_cmd(connect(NewRcon), raised) IN
    /\ ~rcon.made
    /\ rcon' = o.rc
    /\ call' = [NoCall("on_ready") EXCEPT !.flag = raised, !.exc = o.exc]
    /\ UNCHANGED <<fsVars, readerVars, parserVars, hist, observerVars>>

\* One run of the task check_chat_messages.
CheckChatMessages ==
    /\ rcon.made
    /\ \E greedy \in BOOLEAN :
        \E o \in get_chat_message(RS, is_server_working, vanished_players,
                                  data_file, greedy, << >>, << >>) :
            LET k == check_chat_messages(o) IN
            /\ SetRS(o.rs)
            /\ is_server_working' = o.working
            /\ vanished_players' = o.players
            /\ data_file' = o.f
            /\ call' = [NoCall("check_chat_messages") EXCEPT
                            !.n = hist.delivered, !.ret = o.ret, !.arg = k.text,
                            !.flag = k.sent, !.trace = o.trace, !.polls = o.polls]
            /\ hist' = [hist EXCEPT
                            !.delivered =
                                IF o.trace = << >> \/ o.trace[Len(o.trace)].idx < @
                                THEN @ ELSE o.trace[Len(o.trace)].idx,
                            !.rotated = IF o.polls = << >> THEN @ ELSE FALSE,
                            !.vprev = NoVanishOp,
                            !.written =
                                IF o.f # data_file \/ o.players # vanished_players
                                THEN o.exc = "none" ELSE @]
            /\ rcon' = IF k.reconnect THEN connect(rcon) ELSE rcon
            /\ UNCHANGED <<fsVars, observerVars>>

\* The command /tps, given in the channel of the bot.
GetServerTps(raised) ==
    LET k == get_server_tps(rcon, raised) IN
    /\ raised \/ rcon.ready \/ ~rcon.made
    /\ rcon' = k.rc
    /\ call' = [NoCall("get_server_tps") EXCEPT
                    !.flag = (raised \/ ~rcon.made), !.ret = k.reply,
                    !.exc = k.exc]
    /\ UNCHANGED <<fsVars, readerVars, parserVars, hist, observerVars>>

\* The command /list, given in the channel of the bot.
GetListOfPlayers(raised) ==
    LET k == get_list_of_players(rcon, raised) IN
    /\ raised \/ rcon.ready \/ ~rcon.made
    /\ rcon' = k.rc
    /\ call' = [NoCall("get_list_of_players") EXCEPT
                    !.flag = (raised \/ ~rcon.made), !.ret = k.reply,
                    !.exc = k.exc]
    /\ UNCHANGED <<fsVars, readerVars, parserVars, hist, observerVars>>

-----------------------------------------------------------------------------
(* Specifications *)

\* The tail reader alone, on a file that is appended to, written in parts
\* and truncated.
InitTail ==
    /\ InitFile({<< >>, <<ChatLine(P_DS, "Steve")>>})
    /\ InitReader
    /\ InitParser({TRUE}, {[kind |-> "missing", items |-> << >>]})
    /\ InitRcon
    /\ InitObserver(FALSE)
    /\ InitObs

NextTail ==
    \/ \E l \in TailLines : AppendLine(l)
    \/ \E l \in TailLines : WritePartial(l)
    \/ CompleteLine
    \/ Truncate
    \/ GetNewLine
    \/ IsFileModified
    \/ \E n \in 0..(MaxWrites + 1) : SetLastPosition(n)
    \/ ResetFileModifiedTimestamp

SpecTail == InitTail /\ [][NextTail]_vars

\* The classifier and the vanish handler, called line by line.
InitChat ==
    /\ InitFile({<< >>})
    /\ InitReader
    /\ InitParser(BOOLEAN, DataFiles)
    /\ InitRcon
    /\ InitObserver(FALSE)
    /\ InitObs

NextChat ==
    \/ \E m \in Messages : ExtractChatMessage(m)
    \/ \E m \in Messages \cup Bodies : Strip(m)
    \/ \E m \in Bodies : ProcessMessage(m)
    \/ \E u \in Players : VanishPlayer(u)
    \/ \E u \in Players : UnvanishPlayer(u)
    \/ \E f \in DataFiles \cup BadDataFiles \cup MixedCaseDataFiles :
           NewVanishHandler(f)
    \/ RestartVanishHandler

SpecChat == InitChat /\ [][NextChat]_vars

\* The message pump on a log the server appends to.
InitPump ==
    /\ InitFile({<< >>})
    /\ InitReader
    /\ InitParser(BOOLEAN, {[kind |-> "list", items |-> <<"steve">>]})
    /\ InitRcon
    /\ InitObserver(FALSE)
    /\ InitObs

NextPump ==
    \/ \E l \in PumpLines : AppendLine(l)
    \/ GetChatMessage

SpecPump == InitPump /\ [][NextPump]_vars

\* The message pump on a log that is appended to and that, at times, cannot
\* be read.
LogFaults == {"none", "stat", "getsize", "open", "read"}

FaultLines == {ChatLine(P_DS, "Steve"), VanishLine("Steve"), StoppingLine}

InitFault ==
    /\ InitFile({<< >>})
    /\ InitReader
    /\ InitParser({TRUE}, {[kind |-> "list", items |-> << >>]})
    /\ InitRcon
    /\ InitObserver(FALSE)
    /\ InitObs

NextFault ==
    \/ \E l \in FaultLines : AppendLine(l)
    \/ \E k \in LogFaults : SetLogFault(k)
    \/ \E b \in BOOLEAN : SetDataFault(b)
    \/ GetNewLine
    \/ GetChatMessage

SpecFault == InitFault /\ [][NextFault]_vars

\* Readers of both modules constructed on a path that, at times, is not
\* there.
ReaderModules == {"chat_parser.log_parser", "log_parser.parser"}

CtorFaults == {"none", "absent", "stat", "getsize"}

InitCtor ==
    /\ InitFile({<< >>, <<ChatLine(P_DS, "Steve")>>})
    /\ last_position = 0
    /\ cached_stamp = 0
    /\ iterator = NoIterator
    /\ reader = "none"
    /\ InitParser({TRUE}, {[kind |-> "missing", items |-> << >>]})
    /\ InitRcon
    /\ InitObserver(FALSE)
    /\ InitObs

NextCtor ==
    \/ \E l \in TailLines : fault.log # "absent" /\ AppendLine(l)
    \/ \E k \in CtorFaults : SetLogFault(k)
    \/ \E m \in ReaderModules : NewReader(m)

SpecCtor == InitCtor /\ [][NextCtor]_vars

\* The RCON client: connected, used, closed, and reconnected by the tasks it
\* starts.
InitRconClient ==
    /\ InitFile({<< >>})
    /\ InitReader
    /\ InitParser({TRUE}, {[kind |-> "missing", items |-> << >>]})
    /\ InitRcon
    /\ InitObserver(FALSE)
    /\ InitObs

NextRcon ==
    \/ RconConnect
    \/ ReconnectTask
    \/ RconClose
    \/ \E cmd \in Commands, raised \in BOOLEAN : RconSendCmd(cmd, raised)

SpecRcon == InitRconClient /\ [][NextRcon]_vars

\* The RCON client, connected, with send_cmd calls of several handlers
\* under way at the same time.
InitRconCalls ==
    /\ InitFile({<< >>})
    /\ InitReader
    /\ InitParser({TRUE}, {[kind |-> "missing", items |-> << >>]})
    /\ rcon = connect(NewRcon)
    /\ InitObserver(FALSE)
    /\ InitObs

NextRconCalls ==
    \/ \E h \in 1..MaxCalls : SendBegin(h)
    \/ \E h \in 1..MaxCalls : SendReturn(h)
    \/ \E h \in 1..MaxCalls, early \in BOOLEAN : SendRaise(h, early)
    \/ \E h \in 1..MaxCalls : CloseReturn(h)
    \/ ReconnectTask

SpecRconCalls == InitRconCalls /\ [][NextRconCalls]_vars

\* The bot: on_ready, the polling task, the commands /tps and /list, and the
\* reconnection task of the RCON client.
InitBot ==
    /\ InitFile({<< >>})
    /\ InitReader
    /\ InitParser({TRUE}, {[kind |-> "list", items |-> << >>]})
    /\ rcon = NoRcon
    /\ InitObserver(FALSE)
    /\ InitObs

NextBot ==
    \/ \E l \in PumpLines : AppendLine(l)
    \/ \E raised \in BOOLEAN : OnReady(raised)
    \/ CheckChatMessages
    \/ \E raised \in BOOLEAN : GetServerTps(raised)
    \/ \E raised \in BOOLEAN : GetListOfPlayers(raised)
    \/ ReconnectTask

SpecBot == InitBot /\ [][NextBot]_vars

\* The background observer, started, on a log the server appends to, with
\* a consumer that takes the lines from the buffer.
InitObserverStarted ==
    LET c == FileChangesUtillity_init("log_parser.parser") IN
    /\ InitFile({<< >>, <<ChatLine(P_DS, "Steve")>>})
    /\ last_position = c.rs.last_position
    /\ cached_stamp = c.rs.cached_stamp
    /\ iterator = c.rs.iterator
    /\ reader = "log_parser.parser"
    /\ InitParser({TRUE}, {[kind |-> "missing", items |-> << >>]})
    /\ InitRcon
    /\ InitObserver(TRUE)
    /\ InitObs

NextObserver ==
    \/ \E l \in TailLines : AppendLine(l)
    \/ \E t \in 1..Len(threads) : ObserverCheck(t)
    \/ \E t \in 1..Len(threads) : ObserverTick(t)
    \/ \E t \in 1..Len(threads) : ObserverSave(t)
    \/ HandlerGetNewLine

\* The worker loop runs for as long as is_working is set, and the consumer
\* keeps calling get_new_line.
FairObserver ==
    /\ \A t \in 1..1 : WF_vars(ObserverCheck(t))
    /\ \A t \in 1..1 : WF_vars(ObserverTick(t))
    /\ \A t \in 1..1 : WF_vars(ObserverSave(t))
    /\ WF_vars(HandlerGetNewLine)

SpecObserver == InitObserverStarted /\ [][NextObserver]_vars /\ FairObserver

\* The observer on a log that, at times, cannot be read.
NextObserverFault ==
    \/ AppendLine(ChatLine(P_DS, "Steve"))
    \/ \E k \in LogFaults : SetLogFault(k)
    \/ \E t \in 1..Len(threads) : ObserverCheck(t)
    \/ \E t \in 1..Len(threads) : ObserverTick(t)
    \/ \E t \in 1..Len(threads) : ObserverSave(t)
    \/ HandlerGetNewLine

SpecObserverFault == InitObserverStarted /\ [][NextObserverFault]_vars

\* The lines the server appends while the workers are followed step by step.
MaxWorkerWrites == MaxWrites - 1

\* The observer started and stopped by its owner: start(), stop(), the
\* worker threads step by step, and the server appending.
InitWorker ==
    LET c == FileChangesUtillity_init("log_parser.parser") IN
    /\ InitFile({<< >>})
    /\ last_position = c.rs.last_position
    /\ cached_stamp = c.rs.cached_stamp
    /\ iterator = c.rs.iterator
    /\ reader = "log_parser.parser"
    /\ InitParser({TRUE}, {[kind |-> "missing", items |-> << >>]})
    /\ InitRcon
    /\ InitObserver(FALSE)
    /\ InitObs

NextWorker ==
    \/ Len(file) < MaxWorkerWrites /\ AppendLine(ChatLine(P_DS, "Steve"))
    \/ Start
    \/ Stop
    \/ \E t \in 1..Len(threads) : ObserverCheck(t)
    \/ \E t \in 1..Len(threads) : ObserverTick(t)
    \/ \E t \in 1..Len(threads) : ObserverSeek(t)
    \/ \E t \in 1..Len(threads) : ObserverRead(t)

\* Every thread that was started keeps running.
FairWorker ==
    \A t \in 1..MaxStarts :
        WF_vars(/\ t \in DOMAIN threads
                /\ \/ ObserverCheck(t)
                   \/ ObserverTick(t)
                   \/ ObserverSeek(t)
                   \/ ObserverRead(t))

SpecWorker == InitWorker /\ [][NextWorker]_vars /\ FairWorker

Init == InitPump
Next == NextPump
Spec == SpecPump

-----------------------------------------------------------------------------
(* Properties of the tail reader *)

\* Only whole lines were appended and only get_new_line was called: no
\* truncation, no set_last_position, no line written in parts and no call of
\* is_file_modified from outside.
AppendOnly ==
    ~hist.truncated /\ ~hist.seeked /\ ~hist.torn /\ ~hist.polled

\* C1: on a file that is only appended to (no truncation, no
\* set_last_position), every get_new_line call that returns a line returns
\* the first appended line not returned yet, whole, and a call returns ""
\* only when every appended line has been returned: each appended line is
\* returned exactly once, in append order, and none twice.
C1_EachAppendedLineOnceInOrder ==
    [][(call'.op = "get_new_line" /\ AppendOnly')
          => IF call'.ret = EMPTY
             THEN hist'.delivered = Len(file')
             ELSE /\ hist.delivered < Len(file)
                  /\ call'.item.part = "full"
                  /\ call'.item.idx = hist.delivered + 1
                  /\ call'.ret = Append(file[hist.delivered + 1], NL)]_vars

\* C1 witness: three lines were appended and the third has just been
\* returned, after the first two.
C1_Witness ==
    /\ AppendOnly
    /\ call.op = "get_new_line"
    /\ call.item.idx = 3
    /\ call.item.part = "full"
    /\ hist.delivered = 3

\* The first poll of a call found the file smaller than the stored offset.
Shrunk(polls) == polls # << >> /\ polls[1].size < polls[1].pos

\* C2: when a poll (a call of is_file_modified, from outside or by
\* get_new_line starting a pass) finds the file smaller than the stored
\* offset, the file having been truncated since the last poll (hist.rotated;
\* set_last_position was not called), the offset is
\* 0 after it, and get_new_line reads from byte 0: the call returns the
\* line at byte 0 of the new content ("" when the file is empty), and with
\* the offset at 0 and no pass open the next pass starts at byte 0.
C2_ShrunkFileReadFromStart ==
    [][(~hist'.seeked /\ call'.op \in {"get_new_line", "is_file_modified"})
          => /\ (hist.rotated /\ Shrunk(call'.polls))
                  => /\ last_position' = 0
                     /\ call'.op = "get_new_line" => call'.item = ItemAt(0)
             /\ (call'.op = "get_new_line" /\ last_position = 0
                    /\ iterator.st # "open" /\ call'.ret # EMPTY)
                  => call'.item = ItemAt(0)]_vars

\* C2 witness: get_new_line found the file shrunk below its offset and
\* returned the first line of the new content.
C2_Witness ==
    /\ call.op = "get_new_line"
    /\ Shrunk(call.polls)
    /\ ~hist.seeked
    /\ hist.truncated
    /\ call.item.idx = 1
    /\ call.item.part = "full"
    /\ last_position = 0

\* C18: as long as the file is not truncated and set_last_position is not
\* called, get_new_line returns nothing of the lines that were in the file
\* when the reader was constructed.
C18_PreexistingContentNotReturned ==
    [][(/\ call'.op = "get_new_line"
        /\ ~hist'.truncated /\ ~hist'.seeked
        /\ call'.ret # EMPTY)
          => call'.item.idx > hist.preexisting]_vars

\* C18 witness: the reader was constructed on a file of one line, and the
\* first line it returned is the line appended after.
C18_Witness ==
    /\ call.op = "get_new_line"
    /\ hist.preexisting = 1
    /\ ~hist.truncated /\ ~hist.seeked
    /\ call.item.idx = 2
    /\ call.item.part = "full"
    /\ call.ret # EMPTY
    /\ hist.delivered = 2

\* C23: when set_last_position(n) was called and reset_file_modified_timestamp
\* right after it, the next call of get_new_line returns what the file holds
\* at byte n, for n within the file, whatever the reader was doing when the
\* two calls were made.
C23_SeekThenResetReadsFromN ==
    [][(call'.op = "get_new_line" /\ hist.armed /\ last_position <= getsize)
          => call'.item = ItemAt(last_position)]_vars

\* C24: get_new_line returns whole lines only: never the text of a line
\* whose terminator has not been written yet, and never the rest of a line
\* it has returned the start of.
C24_OnlyCompleteLines ==
    [][(call'.op = "get_new_line" /\ call'.ret # EMPTY)
          => call'.item.part = "full"]_vars

\* C25: after every call of is_file_modified the stored offset is at most
\* the size of the file.
C25_OffsetWithinFileAfterPoll ==
    [][call'.op = "is_file_modified" => last_position' <= getsize']_vars

\* C26, as stated: when the stamp of the file is the cached one,
\* is_file_modified returns False and get_new_line returns "", and both leave
\* the offset and the cached stamp as they are and open no file.
C26_UnchangedStampReadsNothing ==
    [][(mtime = cached_stamp)
          => /\ call'.op = "is_file_modified"
                  => (~call'.flag /\ UNCHANGED readerVars)
             /\ call'.op = "get_new_line"
                  => /\ call'.ret = EMPTY
                     /\ iterator'.st # "open"
                     /\ UNCHANGED <<last_position, cached_stamp>>]_vars

\* C26, amended: the same, for get_new_line only when no read pass is open;
\* an open pass is first read to its end.
C26_UnchangedStampReadsNothingOutsideAPass ==
    [][(mtime = cached_stamp)
          => /\ call'.op = "is_file_modified"
                  => (~call'.flag /\ UNCHANGED readerVars)
             /\ (call'.op = "get_new_line" /\ iterator.st # "open")
                  => /\ call'.ret = EMPTY
                     /\ iterator'.st # "open"
                     /\ UNCHANGED <<last_position, cached_stamp>>]_vars

\* C26 witness: is_file_modified returned False on a file whose stamp is the
\* cached one, although the file holds a line beyond the stored offset.
C26_Witness ==
    /\ call.op = "is_file_modified"
    /\ ~call.flag
    /\ mtime = cached_stamp
    /\ iterator.st # "open"
    /\ Len(file) = 1
    /\ last_position = 0

\* C35: once the file has been truncated and written again (whole lines
\* only, no set_last_position, no is_file_modified from outside), every
\* get_new_line call that returns a line returns the first line of the new
\* content not returned yet, and a call returns "" only when every line of
\* the new content has been returned.
C35_NewContentReadInFull ==
    [][(/\ call'.op = "get_new_line"
        /\ hist'.truncated /\ ~hist'.seeked /\ ~hist'.torn /\ ~hist'.polled)
          => IF call'.ret = EMPTY
             THEN hist'.delivered = Len(file')
             ELSE /\ hist.delivered < Len(file)
                  /\ call'.item.idx = hist.delivered + 1
                  /\ call'.ret = Append(file[hist.delivered + 1], NL)]_vars

\* C19: constructing a FileChangesUtillity, of chat_parser/log_parser.py or
\* of log_parser/parser.py, on a path that does not exist raises
\* LogFileNotExists and makes no reader: the reader there was, or none, is
\* what there is after the call.
C19_ConstructionOnMissingPathFails ==
    [][(call'.op = "FileChangesUtillity.__init__" /\ fault.log = "absent")
          => (call'.exc = "LogFileNotExists" /\ UNCHANGED readerVars)]_vars

\* The reader of log_parser/parser.py was constructed on a path that is not
\* there, LogFileNotExists was raised and there is no reader.
C19_Witness ==
    /\ call.op = "FileChangesUtillity.__init__"
    /\ call.arg = <<Sym("log_parser.parser")>>
    /\ fault.log = "absent"
    /\ call.exc = "LogFileNotExists"
    /\ reader = "none"

-----------------------------------------------------------------------------
(* Properties of the background observer *)

\* The lines in the buffer are whole lines of the file, in the order of the
\* file, from the one after the last line the consumer took to the last
\* line read.
BufferInOrder ==
    /\ \A k \in 1..Len(line_buffer) :
          /\ hist.delivered + k <= Len(file)
          /\ line_buffer[k] = [idx  |-> hist.delivered + k, part |-> "full",
                               text |-> Append(file[hist.delivered + k], NL)]
    /\ 2 * (hist.delivered + Len(line_buffer)) = last_position

\* C22: a tick of the worker that finds more than max_buffer_len lines in
\* the buffer reads nothing from the file and leaves the reader as it is;
\* the buffer always holds the lines read and not yet taken, in order; and
\* every line that is in the file and unread at such a tick is in the
\* buffer, or was taken from it, at some later time.
C22_OverloadedTickDefersLines ==
    /\ [][(call'.op = "file_observer" /\ MaxBufferLen < Len(line_buffer))
            => /\ call'.arg = <<Sym("overloaded")>>
               /\ call'.polls = << >>
               /\ UNCHANGED <<last_position, cached_stamp, line_buffer>>]_vars
    /\ []BufferInOrder
    /\ \A i \in 1..(MaxWrites + 1) :
          (hist.overloaded /\ Len(file) >= i) ~> (last_position >= 2 * i)

\* After a tick that was skipped on a full buffer, a later tick has placed
\* the last line of the file in the buffer, behind the line that was left
\* in it.
C22_Witness ==
    /\ call.op = "_save_new_lines"
    /\ call.flag
    /\ call.n = 1
    /\ Len(line_buffer) = 2
    /\ line_buffer[2].idx = Len(file)
    /\ last_position = getsize

\* C32: the line buffer is a bounded queue: it never holds more than
\* max_buffer_len + 1 lines, the length at which the worker stops reading,
\* however many lines the file gets between two ticks.
C32_BufferIsBounded ==
    Len(line_buffer) <= MaxBufferLen + 1

\* C34: a tick of the worker on a file that cannot be examined or read
\* raises nothing and does not end the worker: the thread is in the loop
\* for as long as is_working is set.
C34_FailedTickIsRetried ==
    /\ call.op = "file_observer" => call.exc = "none"
    /\ is_working => \A t \in DOMAIN threads : threads[t].pc # "dead"

-----------------------------------------------------------------------------
(* Properties of start() and stop() *)

\* C33: stop() clears the flag and touches no thread; a thread leaves the
\* loop only at its test of the flag, and does so at the first test that
\* finds the flag cleared; with the flag cleared a thread polls the file at
\* most once more; and a thread whose flag stays cleared ends.
C33_StopIsCooperative ==
    /\ [][call'.op = "stop" => (~is_working' /\ threads' = threads)]_vars
    /\ [][\A t \in DOMAIN threads :
             /\ (threads'[t].pc = "exited" /\ threads[t].pc # "exited")
                    => (threads[t].pc = "check" /\ ~is_working)
             /\ (call'.op = "is_working" /\ call'.n = t /\ ~is_working)
                    => threads'[t].pc = "exited"]_vars
    /\ [](~is_working => \A t \in DOMAIN threads : hist.late[t] <= 1)
    /\ ~is_working
          ~> (is_working \/ \A t \in DOMAIN threads : threads[t].pc = "exited")

\* C33 witness: stop() was called while the thread slept; the thread
\* polled the file once more and left the loop at its next test of the flag.
C33_Witness ==
    /\ call.op = "is_working"
    /\ ~call.flag
    /\ ~is_working
    /\ threads[1].pc = "exited"
    /\ hist.late[1] = 1

\* The threads that are running file_observer.
Polling == {t \in DOMAIN threads : threads[t].pc \notin {"exited", "dead"}}

\* No line of the file is in the buffer twice.
NoLineTwice ==
    \A i, j \in DOMAIN line_buffer :
        line_buffer[i].idx = line_buffer[j].idx => i = j

\* C38: whatever start() and stop() calls were made, at most one thread is
\* running file_observer, and no line of the file is in the buffer twice.
C38_OneWorkerNoDuplicates ==
    /\ Cardinality(Polling) <= 1
    /\ NoLineTwice

-----------------------------------------------------------------------------
(* Properties of the RCON client *)

\* C20: when the send_cmd of aiomcrcon.Client raises, AIOMcRcon.send_cmd
\* raises RCONSendCmdError; when the client was ready then, it has been
\* closed and one more reconnection task has been started.
C20_SendFailureIsReportedAndReconnects ==
    [][(call'.op = "send_cmd" /\ call'.flag)
          => /\ call'.exc = "RCONSendCmdError"
             /\ rcon.ready => (~rcon'.ready /\ rcon'.tasks = rcon.tasks + 1)]_vars

\* A send failed on a ready client that had reconnected once before: the
\* client is closed and a second reconnection task runs beside the first.
C20_Witness ==
    /\ call.op = "send_cmd"
    /\ call.flag
    /\ call.exc = "RCONSendCmdError"
    /\ ~rcon.ready
    /\ rcon.tasks = 2
    /\ rcon.connects = 2

\* C21: of the failing calls of send_cmd made in a row, with no connect
\* completed in between, on a client that was ready at the first, exactly one
\* created a reconnection task; a failing call on a client that is not ready
\* creates none.
C21_OneReconnectionPerStreak ==
    [][(call'.op = "send_cmd" /\ call'.flag)
          => /\ ~rcon.ready => rcon'.tasks = rcon.tasks
             /\ hist'.streak.ready => hist'.streak.made = 1]_vars

\* Three sends in a row failed on a client that was ready at the first, and
\* one reconnection task was created.
C21_Witness ==
    /\ call.op = "send_cmd"
    /\ call.flag
    /\ hist.streak.n = 3
    /\ hist.streak.ready
    /\ hist.streak.made = 1
    /\ rcon.tasks = 1

\* C37: with send_cmd calls failing while others are under way, at most one
\* reconnection task exists at any time.
C37_OneReconnectionAmongConcurrentCalls ==
    rcon.tasks <= 1

-----------------------------------------------------------------------------
(* Properties of the classifier and the vanish handler *)

\* A line made of a timestamp, a logger prefix and a body of one of the two
\* message shapes.
PlainLine(message) ==
    /\ Len(message) >= 4
    /\ message[1] = TS
    /\ message[2] \in {P_MS, P_DS}
    /\ message_struct_pattern(SubSeq(message, 3, Len(message)))

BodyOfLine(message) == SubSeq(message, 3, Len(message))

\* The player a body of one of the two message shapes is attributed to.
Speaker(body) == body[1][2]

IsStatusMarker(message) ==
    \/ stopped_server_pattern(message)
    \/ starting_server_pattern(message)
    \/ started_server_patterns_list(message)

\* C3: with the status running and the speaking player not vanished,
\* extract_chat_message on a line made of a timestamp, a known chat prefix
\* and a body '<username> text' or 'username word text' returns exactly the
\* body.  (Stated for the two logger prefixes; the text is free.)
C3_PlainLineReturnsBody ==
    [][(/\ call'.op = "extract_chat_message"
        /\ is_server_working
        /\ PlainLine(call'.arg)
        /\ Lower(Speaker(BodyOfLine(call'.arg))) \notin vanished_players)
          => call'.ret = BodyOfLine(call'.arg)]_vars

\* The name in a vanish or unvanish marker "[name: [Vanishmod] name ...]".
MarkerName(msg) == Body(msg)[1][2]

\* C4: a vanish marker line processed by the chat parser returns
\* '<name> left the game', adds lowercase(name) to the vanished set and
\* writes the set to storage; the chat line of that player processed next
\* yields an empty result.
C4_VanishMarkerHidesPlayer ==
    [][/\ (/\ call'.op = "extract_chat_message"
           /\ is_server_working
           /\ VANISHED_PATTERN(StripPrefixes(call'.arg)))
          => LET name == MarkerName(StripPrefixes(call'.arg)) IN
             /\ call'.exc = "none"
             /\ call'.ret = LEFT_GAME_PATTERN(name)
             /\ Lower(name) \in vanished_players'
             /\ data_file'.kind = "list"
             /\ Range(data_file'.items) = vanished_players'
       /\ (/\ call.op = "extract_chat_message"
           /\ VANISHED_PATTERN(StripPrefixes(call.arg))
           /\ call'.op = "extract_chat_message"
           /\ is_server_working
           /\ call'.arg = ChatLine(P_DS, MarkerName(StripPrefixes(call.arg))))
          => call'.ret = EMPTY]_vars

\* C5: for a chat or event body attributed to username u, process_message
\* returns "" when lowercase(u) is in the vanished set and the body
\* unchanged otherwise.
C5_VanishedPlayerSuppressed ==
    [][(/\ call'.op = "process_message"
        /\ message_struct_pattern(call'.arg))
          => /\ call'.exc = "none"
             /\ call'.ret = IF Lower(Speaker(call'.arg)) \in vanished_players
                            THEN EMPTY
                            ELSE call'.arg]_vars

\* _unvanish_player called right after _vanish_player, with the same
\* username up to letter case.
VanishThenUnvanish ==
    /\ hist.vprev.op = "unvanish"
    /\ hist.vprev.prior_op = "vanish"
    /\ Lower(hist.vprev.name) = Lower(hist.vprev.prior_name)

\* The storage file is a JSON list of exactly the names of set S.
FileHolds(S) ==
    /\ data_file.kind = "list"
    /\ Range(data_file.items) = S
    /\ Len(data_file.items) = Cardinality(S)

\* C6 as claimed: after a vanish and an unvanish of the same username (any
\* letter case) the player is not suppressed and the file holds exactly the
\* set as it was before the vanish.
C6_RoundTripRestoresSet ==
    VanishThenUnvanish
        => /\ ~IsSuppressed(Lower(hist.vprev.name), vanished_players)
           /\ vanished_players = hist.vprev.prior_pre
           /\ FileHolds(hist.vprev.prior_pre)

\* C6 as amended: after a vanish and an unvanish of the same username (any
\* letter case) the player is not suppressed, and the set and the file hold
\* the set as it was before the vanish without that player's lowercase name
\* (the set as it was when the player was not vanished before; an empty list
\* when it was empty).
C6_RoundTripRemovesPlayer ==
    VanishThenUnvanish
        => /\ ~IsSuppressed(Lower(hist.vprev.name), vanished_players)
           /\ vanished_players = hist.vprev.prior_pre \ {Lower(hist.vprev.name)}
           /\ FileHolds(hist.vprev.prior_pre \ {Lower(hist.vprev.name)})

\* C6 witness: "Steve" was vanished and "STEVE" unvanished, starting from an
\* empty set; the file holds an empty list.
C6_Witness ==
    /\ VanishThenUnvanish
    /\ hist.vprev.prior_name = "Steve"
    /\ hist.vprev.name = "STEVE"
    /\ hist.vprev.prior_pre = {}
    /\ data_file = [kind |-> "list", items |-> << >>]

\* C7: while the status is not running, extract_chat_message returns "" for
\* every line that is no status marker and leaves the status not running;
\* a chat line is returned only with the status running, and the status
\* becomes running only by a started marker.
C7_NoChatWhileNotRunning ==
    [][call'.op = "extract_chat_message"
          => /\ (~is_server_working /\ ~IsStatusMarker(call'.arg))
                    => /\ call'.ret = EMPTY
                       /\ call'.exc = "none"
                       /\ ~is_server_working'
             /\ (call'.ret # EMPTY /\ ~IsStatusMarker(call'.arg))
                    => is_server_working
             /\ (~is_server_working /\ is_server_working')
                    => started_server_patterns_list(call'.arg)]_vars

\* C7 witness: a chat line was processed with the status not running and
\* gave "".
C7_Witness ==
    /\ call.op = "extract_chat_message"
    /\ call.arg = ChatLine(P_DS, "Steve")
    /\ ~is_server_working
    /\ call.ret = EMPTY

\* C8: a line containing '[Rcon] SERVER STOPPED...' yields the stop signal
\* and sets the status to not running; a line containing
\* '[Rcon] SERVER STARTED!!!' yields the start signal and sets the status to
\* running.
C8_RconMarkersRecognized ==
    [][call'.op = "extract_chat_message"
          => /\ Body(call'.arg) = RconStoppedLine
                    => call'.ret = STOPPED_MSG /\ ~is_server_working'
             /\ Body(call'.arg) = RconStartedLine
                    => call'.ret = STARTED_MSG /\ is_server_working']_vars

-----------------------------------------------------------------------------
(* Properties of the message pump *)

\* The status lines a get_chat_message call processed.
StatusChanged(trace) ==
    \E i \in 1..Len(trace) : trace[i].ret \in {STOPPED_MSG, STARTING_MSG, STARTED_MSG}

\* C9: a server start or stop reaches the caller of get_chat_message as the
\* signal ServerStarted or ServerStopped, never as a returned string.
C9_StatusIsASignal ==
    (call.op = "get_chat_message" /\ StatusChanged(call.trace))
        => /\ call.exc \in {"ServerStarted", "ServerStopped"}
           /\ call.ret \notin {STOPPED_MSG, STARTING_MSG, STARTED_MSG}

\* C10: a get_chat_message call takes the lines of the log in order, none
\* skipped, from the first line not consumed before (call.n lines were);
\* every line it took but the last gave no message, and it returns what the
\* last one gave; it returns "" only when every line of the file has been
\* consumed.
C10_OneMessageInLineOrder ==
    call.op = "get_chat_message"
        => LET t == call.trace IN
           /\ \A i \in 1..Len(t) :
                  /\ t[i].idx = call.n + i
                  /\ t[i].part = "full"
                  /\ i < Len(t) => t[i].ret = EMPTY
           /\ call.ret = IF t = << >> THEN EMPTY ELSE RStrip(t[Len(t)].ret)
           /\ call.ret = EMPTY => hist.delivered = Len(file)
           /\ hist.delivered = call.n + Len(t)

\* C10 witness: a call skipped two lines that gave no message and returned
\* the message of the third.
C10_Witness ==
    /\ call.op = "get_chat_message"
    /\ Len(call.trace) = 3
    /\ call.ret = <<Angle("Steve"), Name("hi")>>

-----------------------------------------------------------------------------
(* Properties of the vanish storage *)

\* File f is a JSON list of exactly the names of set S.
HoldsList(f, S) ==
    /\ f.kind = "list"
    /\ Range(f.items) = S

IsVanishCall(c) == c.op \in {"_vanish_player", "_unvanish_player"}

\* The username a _vanish_player or _unvanish_player call was given.
CallName(c) == c.arg[1][2]

C13_ConstructionNeverFails ==
    [][call'.op = "VanishHandlerBase.__init__"
          => /\ call'.exc = "none"
             /\ call'.arg # <<Sym("list")>> => vanished_players' = {}]_vars

-----------------------------------------------------------------------------
(* Properties of the classifier on lines that are no chat *)

\* The line holds none of the known chat prefixes.
NoKnownPrefix(message) ==
    \A i \in 1..Len(chat_message_patterns_list) :
        ~Contains(message, chat_message_patterns_list[i])

\* The line has no known chat prefix, or its stripped body has neither of
\* the two message shapes.
NoChatLine(message) ==
    \/ NoKnownPrefix(message)
    \/ ~message_struct_pattern(StripPrefixes(message))

\* C16 as claimed: extract_chat_message returns "" and raises nothing for
\* every line with no known chat prefix or whose stripped body has neither
\* message shape.
C16_NoChatLineGivesNothing ==
    [][(call'.op = "extract_chat_message" /\ NoChatLine(call'.arg))
          => call'.ret = EMPTY /\ call'.exc = "none"]_vars

\* C16 as amended: extract_chat_message returns "" and raises nothing for
\* every line that is no status marker and has no known chat prefix or a
\* stripped body of neither message shape.
C16_NoChatNoStatusLineGivesNothing ==
    [][(/\ call'.op = "extract_chat_message"
        /\ ~IsStatusMarker(call'.arg)
        /\ NoChatLine(call'.arg))
          => call'.ret = EMPTY /\ call'.exc = "none"]_vars

\* C16 witness: with the status running, text of the shape of an event and
\* with no prefix gave "".
C16_Witness ==
    /\ call.op = "extract_chat_message"
    /\ call.arg = RawLine
    /\ is_server_working
    /\ call.ret = EMPTY
    /\ call.exc = "none"

\* C17: stripping the known chat prefixes from text that holds none of them
\* returns the text unchanged, and stripping what was stripped returns it
\* unchanged.
C17_StripKeepsAndIsIdempotent ==
    call.op = "strip"
        => /\ NoKnownPrefix(call.arg) => call.ret = call.arg
           /\ NoKnownPrefix(call.ret)
           /\ StripPrefixes(call.ret) = call.ret

\* C17 witness: a line whose text holds "[Not Secure] " after its logger
\* prefix was stripped to what follows the last of them.
C17_Witness ==
    /\ call.op = "strip"
    /\ call.arg = QuotingLine("Steve", "Alex")
    /\ call.ret = <<Name("Alex"), Name("joined"), Name("game")>>

-----------------------------------------------------------------------------
(* Properties of the server status and of the vanished set *)

\* C27: the server status changes only when extract_chat_message processes
\* a status marker line: the 'Stopping server' line and the 'ModLauncher
\* running' line set it to not running, the voice chat line and the 'RCON
\* running' line set it to running, whatever it was; every other line, and
\* every other operation of the parser, leaves it as it was.
C27_StatusChangesOnlyOnMarkers ==
    [][/\ call'.op = "extract_chat_message"
          => is_server_working' =
                CASE Body(call'.arg) \in {StoppingLine, StartingLine} -> FALSE
                  [] Body(call'.arg) \in {VoiceChatLine, RconRunLine} -> TRUE
                  [] OTHER -> is_server_working
       /\ call'.op # "extract_chat_message"
          => is_server_working' = is_server_working]_vars

\* C27 witness: the 'ModLauncher running' line was processed and the status
\* is not running.
C27_Witness ==
    /\ call.op = "extract_chat_message"
    /\ call.arg = Append(StartingLine, NL)
    /\ call.ret = STARTING_MSG
    /\ ~is_server_working

\* The text, once its prefixes are stripped, is a vanish or an unvanish
\* marker of the mod.
IsVanishMarker(text) ==
    \/ is_vanished(StripPrefixes(text))
    \/ is_unvanished(StripPrefixes(text))

\* C28: processing a line or a message body that is neither a vanish nor an
\* unvanish marker, by extract_chat_message or by process_message, leaves
\* the vanished set as it was and the storage file as it was.
C28_OrdinaryLineLeavesVanishState ==
    [][(/\ call'.op \in {"extract_chat_message", "process_message"}
        /\ ~IsVanishMarker(call'.arg))
          => /\ vanished_players' = vanished_players
             /\ data_file' = data_file]_vars

\* C28 witness: a chat line of Alex was processed and returned while Steve
\* is vanished; the storage file is as it was loaded.
C28_Witness ==
    /\ call.op = "extract_chat_message"
    /\ call.arg = ChatLine(P_DS, "Alex")
    /\ call.ret = <<Angle("Alex"), Name("hi")>>
    /\ vanished_players = {"steve"}
    /\ data_file = [kind |-> "list", items |-> <<"steve">>]

\* C29: every name of the in-memory vanished set is lowercase, in every
\* state, the state right after _load_data included.
C29_VanishedNamesAreLowercase ==
    \A name \in vanished_players : Lower(name) = name

\* C30 as claimed: with the storage file corrupt as it was at load, a
\* _vanish_player or _unvanish_player call rewrites the file as a JSON list
\* of exactly the names of the in-memory set.
C30_FirstOpRewritesCorruptFile ==
    [][(IsVanishCall(call') /\ data_file.kind = "corrupt")
          => HoldsList(data_file', vanished_players')]_vars

\* C30 as amended: a corrupt storage file loads as the empty set; while the
\* file is still corrupt, _vanish_player rewrites it as a JSON list of
\* exactly the in-memory set, which is the one name lowercased, and
\* _unvanish_player changes neither the file nor the set.
C30_FirstVanishRewritesCorruptFile ==
    /\ [](data_file.kind = "corrupt" => vanished_players = {})
    /\ [][(IsVanishCall(call') /\ data_file.kind = "corrupt")
             => IF call'.op = "_vanish_player"
                THEN /\ vanished_players' = {Lower(CallName(call'))}
                     /\ HoldsList(data_file', vanished_players')
                ELSE /\ data_file' = data_file
                     /\ vanished_players' = vanished_players]_vars

\* C30 witness: with the storage file still corrupt, an unvanish was
\* processed and then the vanish of "Steve", which wrote the file.
C30_Witness ==
    /\ call.op = "_vanish_player"
    /\ hist.vprev.op = "vanish"
    /\ hist.vprev.name = "Steve"
    /\ hist.vprev.prior_op = "unvanish"
    /\ hist.vprev.pre = {}
    /\ hist.vprev.pre_kind = "corrupt"
    /\ vanished_players = {"steve"}
    /\ data_file = [kind |-> "list", items |-> <<"steve">>]

\* C31: a handler constructed on the storage file left by a handler that
\* wrote it at its last change of the set has the set that handler had:
\* _load_data of what _dump_data wrote is the identity.
C31_ReloadRestoresSet ==
    [][(/\ call'.op = "VanishHandlerBase.__init__"
        /\ call'.n = 1
        /\ call'.flag)
          => /\ call'.exc = "none"
             /\ vanished_players' = vanished_players]_vars

\* C31 witness: a handler that had vanished two players was replaced by one
\* constructed on the file it wrote, which again holds the two.
C31_Witness ==
    /\ call.op = "VanishHandlerBase.__init__"
    /\ call.n = 1
    /\ call.flag
    /\ vanished_players = {"alex", "steve"}
    /\ data_file = [kind |-> "list", items |-> <<"steve", "alex">>]

\* Where the text of a log line starts: behind the timestamp and the logger
\* prefix, and behind the '[Not Secure] ' the server puts before a chat
\* message.
TextStart(message) ==
    IF Len(message) >= 4 /\ message[3] = P_NS THEN 4 ELSE 3

\* The line is a chat message of a player: its text starts with <username>.
IsChatOfPlayer(message) ==
    /\ Len(message) >= 3
    /\ message[1] = TS
    /\ message[2] \in {P_MS, P_DS, P_NS}
    /\ message[TextStart(message)][1] = "angle"

\* C36: whatever extract_chat_message returns for a chat message of a
\* player starts with the '<username>' of that player, whatever text the
\* player typed behind it.
C36_ChatIsAttributedToItsWriter ==
    [][(/\ call'.op = "extract_chat_message"
        /\ IsChatOfPlayer(call'.arg)
        /\ call'.ret # EMPTY)
          => call'.ret[1] = call'.arg[TextStart(call'.arg)]]_vars

-----------------------------------------------------------------------------
(* Properties of the Discord bot *)

\* C39: a run of check_chat_messages in which get_chat_message returned ""
\* does not call bot.channel.send, and every call of send carries a message
\* that is not empty.
C39_NothingSentOnEmptyPoll ==
    call.op = "check_chat_messages"
        => /\ call.ret = EMPTY => ~call.flag
           /\ call.flag => call.arg # EMPTY

\* C40: when send_cmd fails with RCONSendCmdError, or the RCON client is not
\* made yet, the handlers of /tps and /list raise nothing and reply with the
\* failure notice.
C40_FailedCommandRepliesWithNotice ==
    (call.op \in {"get_server_tps", "get_list_of_players"} /\ call.flag)
        => /\ call.exc = "none"
           /\ call.ret = FAILURE_NOTICE

-----------------------------------------------------------------------------
(* Properties of error handling *)

\* C14: a failing stat, open or read of the monitored file is not
\* propagated by get_new_line; a poll that fails before any line is read
\* yields no line; and a poll made once the error has cleared returns a line
\* as long as a line of the file has not been returned yet, whether or not
\* the file has been written since.
C14_ReaderRetriesAfterError ==
    [][call'.op = "get_new_line"
          => /\ call'.exc = "none"
             /\ (fault.log \in {"stat", "getsize", "open"} /\ iterator.st # "open")
                    => call'.ret = EMPTY
             /\ (fault.log = "none" /\ hist.delivered < Len(file))
                    => call'.ret # EMPTY]_vars

\* Line idx of the log is a vanish or unvanish marker line.
IsMarkerLine(idx) ==
    \/ VANISHED_PATTERN(StripPrefixes(file[idx]))
    \/ UNVANISHED_PATTERN(StripPrefixes(file[idx]))

=============================================================================
